---- MODULE Spec2Model ----
(***************************************************************************)
(* The full-node side of the filter-subscribe protocol                     *)
(* (waku/v2/protocol/filter/server.go): the request handler that serves    *)
(* one SUBSCRIBE / SUBSCRIBER_PING / UNSUBSCRIBE / UNSUBSCRIBE_ALL request *)
(* per inbound stream against the subscription registry.                   *)
(*                                                                         *)
(* The handler's code is translated step by step (one step per Registry    *)
(* call, the Registry taking its own lock per call).  Two schedulings of   *)
(* the same steps are given:                                               *)
(*   Spec     - requests are served one after the other, each handler      *)
(*              running to completion (ServeRequest);                      *)
(*   SpecConc - one goroutine per stream, the handlers' Registry calls     *)
(*              interleaving freely.                                       *)
(* SpecReply serves requests that carry different request ids, and         *)
(* SpecNode is the node's life: Start, the listener that takes the         *)
(* messages of the relay subscription and launches one push per            *)
(* subscriber, the pushes, and Stop.                                       *)
(***************************************************************************)
EXTENDS Integers, Sequences, FiniteSets, TLC

VARIABLES
    subs,       \* wf.subscriptions: peer -> (pubsub-topic -> set of content-topics)
    streams,    \* per inbound stream: the handler's position, request, replies written
    before,     \* history: the Registry when the request served last (Spec) was accepted
    overlapped, \* history: two handlers have been in flight at the same time
    node,       \* wf.cancel, the stream handler, ctx, wf.wg, the listener, Stop's position
    bus,        \* wf.msgSub: the messages it was given, the next one to read, open or closed
    pushes,     \* the push goroutines launched so far, running or returned
    pushLog,    \* history (SpecPush): per push, the calls pushMessage has made
    gone,       \* history (SpecPush): what a peer's answered unsubscription removed
    chain,      \* the collectibles contract: its max supply and minted count
    saved,      \* the messenger: the saved-addresses store, paired devices or none
    out         \* the API call made last: its arguments, what it read, sent and returned

\* The state of services/collectibles and of the messenger's saved addresses.
appVars == <<chain, saved, out>>

nodeVars == <<node, bus, pushes, pushLog, gone, appVars>>

vars == <<subs, streams, before, overlapped, node, bus, pushes, pushLog, gone,
          chain, saved, out>>

(***************************************************************************)
(* Bounds and universes of the model.                                      *)
(***************************************************************************)
NumPeers == 3

Peers == 1..NumPeers

\* "" is the empty pubsub-topic the handler rejects.
PubsubTopics == {"", "X", "Y"}

ContentTopics == {"c1", "c2", "c3"}

RECURSIVE SeqOf(_)
SeqOf(S) ==
    IF S = {} THEN <<>>
    ELSE LET x == CHOOSE y \in S : TRUE IN <<x>> \o SeqOf(S \ {x})

\* request.ContentTopics is a slice: every subset of ContentTopics in one
\* order (the handler reads only its length and its elements), and one slice
\* that names a content-topic twice.
ContentTopicLists ==
    {SeqOf(S) : S \in SUBSET ContentTopics} \cup {<<"c1", "c1">>}

Range(s) == {s[i] : i \in 1..Len(s)}

(***************************************************************************)
(* Configured limits, scaled down.                                         *)
(***************************************************************************)
maxSubscriptions == 2

MaxContentTopicsPerRequest == 1

MaxCriteriaPerSubscription == 2

StatusOK == 200

StatusBadRequest == 400

StatusNotFound == 404

StatusServiceUnavailable == 503

peerHasNoSubscription == "peer has no subscriptions"

\* net/http's StatusText for the codes the handler uses.
StatusText(code) ==
    CASE code = StatusOK -> "OK"
      [] code = StatusBadRequest -> "Bad Request"
      [] code = StatusNotFound -> "Not Found"
      [] code = StatusServiceUnavailable -> "Service Unavailable"
      [] OTHER -> ""

(***************************************************************************)
(* The subscription registry (SubscribersMap).  Its implementation is not  *)
(* part of the files at hand; it is modelled from the design's contract    *)
(* of Has / Get / Set / Delete / DeleteAll / Count.                        *)
(***************************************************************************)
NoTopics == [t \in {} |-> {}]

NoSubscribers == [p \in {} |-> NoTopics]

Has(reg, p) == p \in DOMAIN reg

Get(reg, p) ==
    [exists |-> p \in DOMAIN reg,
     topics |-> IF p \in DOMAIN reg THEN reg[p] ELSE NoTopics]

Count(reg) == Cardinality(DOMAIN reg)

\* Union-insert, creating the peer record and the pubsub-topic entry if absent.
Set(reg, p, t, cts) ==
    LET old    == IF p \in DOMAIN reg THEN reg[p] ELSE NoTopics
        oldSet == IF t \in DOMAIN old THEN old[t] ELSE {}
        new    == [x \in DOMAIN old \cup {t} |->
                      IF x = t THEN oldSet \cup Range(cts) ELSE old[x]]
    IN  [q \in DOMAIN reg \cup {p} |-> IF q = p THEN new ELSE reg[q]]

\* The (peer, pubsub-topic, content-topic) combinations the request names all exist.
Holds(reg, p, t, cts) ==
    /\ p \in DOMAIN reg
    /\ t \in DOMAIN reg[p]
    /\ Range(cts) \subseteq reg[p][t]

\* Removes the content-topics; an emptied pubsub-topic entry is removed, and a
\* peer left without entries is removed.  err = TRUE: NoSubscriptionError.
Delete(reg, p, t, cts) ==
    IF ~Holds(reg, p, t, cts) THEN [err |-> TRUE, reg |-> reg]
    ELSE
        LET rest   == reg[p][t] \ Range(cts)
            keepT  == IF rest = {} THEN DOMAIN reg[p] \ {t} ELSE DOMAIN reg[p]
            new    == [x \in keepT |-> IF x = t THEN rest ELSE reg[p][x]]
            keepP  == IF keepT = {} THEN DOMAIN reg \ {p} ELSE DOMAIN reg
        IN  [err |-> FALSE,
             reg |-> [q \in keepP |-> IF q = p THEN new ELSE reg[q]]]

DeleteAll(reg, p) ==
    IF p \notin DOMAIN reg THEN [err |-> TRUE, reg |-> reg]
    ELSE [err |-> FALSE, reg |-> [q \in DOMAIN reg \ {p} |-> reg[q]]]

\* Items: the peers subscribed to exactly this pubsub-topic and content-topic,
\* as the Registry is when it is asked.
Items(reg, t, c) == {p \in DOMAIN reg : t \in DOMAIN reg[p] /\ c \in reg[p][t]}

(***************************************************************************)
(* Requests, replies and the handler's state.                              *)
(***************************************************************************)
SUBSCRIBE == "SUBSCRIBE"

SUBSCRIBER_PING == "SUBSCRIBER_PING"

UNSUBSCRIBE == "UNSUBSCRIBE"

UNSUBSCRIBE_ALL == "UNSUBSCRIBE_ALL"

\* The request ids a client may choose.  No handler reads the id: the requests
\* of Spec and of SpecConc all carry the first, those of SpecReply either.
RequestIds == {"r1", "r2"}

Request(type, topic, cts) ==
    [requestId |-> "r1", type |-> type,
     pubsubTopic |-> topic, contentTopics |-> cts]

WithRequestId(req, id) == [req EXCEPT !.requestId = id]

\* Nothing read: no type, no id.
NoRequest == WithRequestId(Request("NONE", "", <<>>), "")

\* The decoded requests: SUBSCRIBE and UNSUBSCRIBE with every topic and list;
\* SUBSCRIBER_PING and UNSUBSCRIBE_ALL, whose handlers read neither field.
Requests ==
    {Request(ty, t, cts) : ty \in {SUBSCRIBE, UNSUBSCRIBE},
                           t \in PubsubTopics, cts \in ContentTopicLists}
    \cup {Request(SUBSCRIBER_PING, "", <<>>), Request(UNSUBSCRIBE_ALL, "", <<>>)}

Response(id, code, desc) ==
    [requestId |-> id, statusCode |-> code, statusDesc |-> desc]

\* A Registry mutation the handler called, with the length of the list it passed.
Call(op, cts) == [op |-> op, n |-> Len(cts)]

\* No stream: no remote peer (0 is no peer of Peers), nothing read or written.
Idle ==
    [pc |-> "idle", peer |-> 0, request |-> NoRequest,
     replies |-> <<>>, calls |-> <<>>]

\* reply(): writes one response on the stream; the description defaults to the
\* status text.
\* Variant: the description the handler supplies is dropped.
reply_StatusTextOnly(hs, code, desc) ==
    [hs EXCEPT !.replies =
         Append(@, Response(hs.request.requestId, code, StatusText(code)))]

reply(hs, code, desc) ==
    [hs EXCEPT !.replies = Append(@, Response(hs.request.requestId, code, desc))]

replyDefault(hs, code) == reply(hs, code, StatusText(code))

Closed(hs) == [hs EXCEPT !.pc = "closed"]

At(hs, label) == [hs EXCEPT !.pc = label]

(***************************************************************************)
(* The handler, one operator per step.  A step that takes the Registry     *)
(* maps (reg, hs) to [reg, hs]; the checks that read only the request are  *)
(* done when the request is dispatched.                                    *)
(***************************************************************************)
\* Variant: the empty pubsub-topic is not checked.
PubsubTopicEmpty_Unchecked(req) == FALSE

PubsubTopicEmpty(req) == req.pubsubTopic = ""

\* Variant: the empty content-topic list is not checked.
NoContentTopics_Unchecked(req) == FALSE

NoContentTopics(req) == Len(req.contentTopics) = 0

\* Variant: the size check is off by one (>= for >).
TooManyContentTopics_OffByOne(req) ==
    Len(req.contentTopics) >= MaxContentTopicsPerRequest

TooManyContentTopics(req) ==
    Len(req.contentTopics) > MaxContentTopicsPerRequest

\* Variant: the capacity check is off by one (> for >=).
NodeFull_OffByOne(reg) == Count(reg) > maxSubscriptions

NodeFull(reg) == Count(reg) >= maxSubscriptions

RECURSIVE SumOfSizes(_, _)
SumOfSizes(topics, ts) ==
    IF ts = {} THEN 0
    ELSE LET t == CHOOSE x \in ts : TRUE
         IN  Cardinality(topics[t]) + SumOfSizes(topics, ts \ {t})

\* ctTotal: the sum of len(contentTopicSet) over the peer's pubsub-topics.
ctTotal(topics) == SumOfSizes(topics, DOMAIN topics)

CriteriaExceeded(reg, p, req) ==
    /\ Get(reg, p).exists
    /\ ctTotal(Get(reg, p).topics) + Len(req.contentTopics)
           > MaxCriteriaPerSubscription

\* fmt.Sprintf("exceeds maximum content topics: %d", MaxContentTopicsPerRequest)
exceedsMaximumContentTopics ==
    "exceeds maximum content topics: " \o ToString(MaxContentTopicsPerRequest)

\* subscribe, up to the first Registry call.  The oversize branch replies and
\* does not return.
subscribeValidate(hs) ==
    IF PubsubTopicEmpty(hs.request)
    THEN Closed(reply(hs, StatusBadRequest, "pubsubtopic can't be empty"))
    ELSE IF NoContentTopics(hs.request)
    THEN Closed(reply(hs, StatusBadRequest,
                      "at least one contenttopic should be specified"))
    ELSE IF TooManyContentTopics(hs.request)
    THEN At(reply(hs, StatusBadRequest, exceedsMaximumContentTopics),
            "subscribeCount")
    ELSE At(hs, "subscribeCount")

\* Variant: the capacity branch replies and does not return.
subscribeCount_NoReturn(reg, hs) ==
    [reg |-> reg,
     hs  |-> IF NodeFull(reg)
             THEN At(reply(hs, StatusServiceUnavailable,
                     "node has reached maximum number of subscriptions"),
                     "subscribeGet")
             ELSE At(hs, "subscribeGet")]

subscribeCount(reg, hs) ==
    [reg |-> reg,
     hs  |-> IF NodeFull(reg)
             THEN Closed(reply(hs, StatusServiceUnavailable,
                         "node has reached maximum number of subscriptions"))
             ELSE At(hs, "subscribeGet")]

subscribeGet(reg, hs) ==
    [reg |-> reg,
     hs  |-> IF CriteriaExceeded(reg, hs.peer, hs.request)
             THEN Closed(reply(hs, StatusServiceUnavailable,
                         "peer has reached maximum number of filter criteria"))
             ELSE At(hs, "subscribeSet")]

\* Variant: the reply is written without the Registry having been updated.
subscribeSet_NoSet(reg, hs) ==
    [reg |-> reg, hs |-> Closed(replyDefault(hs, StatusOK))]

\* Variant: Set replaces what the peer holds by the request's content-topics.
subscribeSet_Replace(reg, hs) ==
    [reg |-> Set(DeleteAll(reg, hs.peer).reg,
                 hs.peer, hs.request.pubsubTopic, hs.request.contentTopics),
     hs  |-> Closed(replyDefault(
                 [hs EXCEPT !.calls = Append(@, Call("Set", hs.request.contentTopics))],
                 StatusOK))]

subscribeSet(reg, hs) ==
    [reg |-> Set(reg, hs.peer, hs.request.pubsubTopic, hs.request.contentTopics),
     hs  |-> Closed(replyDefault(
                 [hs EXCEPT !.calls = Append(@, Call("Set", hs.request.contentTopics))],
                 StatusOK))]

\* unsubscribe, up to the Registry call; the oversize branch does not return
\* either.
unsubscribeValidate(hs) ==
    IF PubsubTopicEmpty(hs.request)
    THEN Closed(reply(hs, StatusBadRequest, "pubsubtopic can't be empty"))
    ELSE IF NoContentTopics(hs.request)
    THEN Closed(reply(hs, StatusBadRequest,
                      "at least one contenttopic should be specified"))
    ELSE IF TooManyContentTopics(hs.request)
    THEN At(reply(hs, StatusBadRequest, exceedsMaximumContentTopics),
            "unsubscribeDelete")
    ELSE At(hs, "unsubscribeDelete")

\* Variant: every subscription of the peer is deleted, not the named ones.
unsubscribeDelete_DeleteAll(reg, hs) ==
    LET d  == DeleteAll(reg, hs.peer)
        h1 == [hs EXCEPT !.calls = Append(@, Call("DeleteAll", <<>>))]
    IN  [reg |-> d.reg,
         hs  |-> IF d.err
                 THEN Closed(reply(h1, StatusNotFound, peerHasNoSubscription))
                 ELSE Closed(replyDefault(h1, StatusOK))]

\* Variant: the outcome of Delete is replied, the Registry is not updated.
unsubscribeDelete_NoDelete(reg, hs) ==
    LET d == Delete(reg, hs.peer, hs.request.pubsubTopic, hs.request.contentTopics)
    IN  [reg |-> reg,
         hs  |-> IF d.err
                 THEN Closed(reply(hs, StatusNotFound, peerHasNoSubscription))
                 ELSE Closed(replyDefault(hs, StatusOK))]

\* Variant: the error of Delete is dropped.
unsubscribeDelete_IgnoreErr(reg, hs) ==
    LET d  == Delete(reg, hs.peer, hs.request.pubsubTopic, hs.request.contentTopics)
        h1 == [hs EXCEPT !.calls = Append(@, Call("Delete", hs.request.contentTopics))]
    IN  [reg |-> d.reg, hs |-> Closed(replyDefault(h1, StatusOK))]

unsubscribeDelete(reg, hs) ==
    LET d  == Delete(reg, hs.peer, hs.request.pubsubTopic, hs.request.contentTopics)
        h1 == [hs EXCEPT !.calls = Append(@, Call("Delete", hs.request.contentTopics))]
    IN  [reg |-> d.reg,
         hs  |-> IF d.err
                 THEN Closed(reply(h1, StatusNotFound, peerHasNoSubscription))
                 ELSE Closed(replyDefault(h1, StatusOK))]

\* Variant: the two branches of ping are exchanged.
ping_Inverted(reg, hs) ==
    [reg |-> reg,
     hs  |-> IF ~Has(reg, hs.peer)
             THEN Closed(replyDefault(hs, StatusOK))
             ELSE Closed(reply(hs, StatusNotFound, peerHasNoSubscription))]

ping(reg, hs) ==
    [reg |-> reg,
     hs  |-> IF Has(reg, hs.peer)
             THEN Closed(replyDefault(hs, StatusOK))
             ELSE Closed(reply(hs, StatusNotFound, peerHasNoSubscription))]

\* Variant: the error of DeleteAll is dropped.
unsubscribeAll_IgnoreErr(reg, hs) ==
    LET d  == DeleteAll(reg, hs.peer)
        h1 == [hs EXCEPT !.calls = Append(@, Call("DeleteAll", <<>>))]
    IN  [reg |-> d.reg, hs |-> Closed(replyDefault(h1, StatusOK))]

\* Variant: 200 is replied, the Registry is not updated.
unsubscribeAll_NoDelete(reg, hs) ==
    [reg |-> reg, hs |-> Closed(replyDefault(hs, StatusOK))]

\* Variant: DeleteAll empties the Registry, whoever asks.
unsubscribeAll_Everyone(reg, hs) ==
    LET d  == DeleteAll(reg, hs.peer)
        h1 == [hs EXCEPT !.calls = Append(@, Call("DeleteAll", <<>>))]
    IN  [reg |-> IF d.err THEN reg ELSE NoSubscribers,
         hs  |-> IF d.err
                 THEN Closed(reply(h1, StatusNotFound, peerHasNoSubscription))
                 ELSE Closed(replyDefault(h1, StatusOK))]

unsubscribeAll(reg, hs) ==
    LET d  == DeleteAll(reg, hs.peer)
        h1 == [hs EXCEPT !.calls = Append(@, Call("DeleteAll", <<>>))]
    IN  [reg |-> d.reg,
         hs  |-> IF d.err
                 THEN Closed(reply(h1, StatusNotFound, peerHasNoSubscription))
                 ELSE Closed(replyDefault(h1, StatusOK))]

\* onRequest: the request read from peer p's stream is dispatched on its type.
onRequest(p, req) ==
    LET hs == [Idle EXCEPT !.peer = p, !.request = req]
    IN  CASE req.type = SUBSCRIBE       -> subscribeValidate(hs)
          [] req.type = SUBSCRIBER_PING -> At(hs, "ping")
          [] req.type = UNSUBSCRIBE     -> unsubscribeValidate(hs)
          [] req.type = UNSUBSCRIBE_ALL -> At(hs, "unsubscribeAll")

\* onRequest when ReadMsg fails: nothing is written, the stream is closed.
onUndecodable(p) == Closed([Idle EXCEPT !.peer = p])

InFlight(hs) == hs.pc \notin {"idle", "closed"}

\* The handler's next step, by its position.
Step(reg, hs) ==
    CASE hs.pc = "subscribeCount"    -> subscribeCount(reg, hs)
      [] hs.pc = "subscribeGet"      -> subscribeGet(reg, hs)
      [] hs.pc = "subscribeSet"      -> subscribeSet(reg, hs)
      [] hs.pc = "unsubscribeDelete" -> unsubscribeDelete(reg, hs)
      [] hs.pc = "ping"              -> ping(reg, hs)
      [] hs.pc = "unsubscribeAll"    -> unsubscribeAll(reg, hs)
      [] OTHER                       -> [reg |-> reg, hs |-> hs]

\* The handler run to its end with no other handler in between.
RECURSIVE Run(_, _)
Run(reg, hs) ==
    IF InFlight(hs) THEN LET n == Step(reg, hs) IN Run(n.reg, n.hs)
    ELSE [reg |-> reg, hs |-> hs]

(***************************************************************************)
(* The node: Start, the listener and its pushes, Stop.                     *)
(***************************************************************************)
\* The most messages the relay subscription is given in a run.
MaxMessages == 2

\* After NewWakuFilterFullnode: no cancel function, no stream handler, the
\* wait group at zero, no listener (loops counts the listeners running), no
\* Stop under way.
NotStarted ==
    [cancel |-> FALSE, handler |-> FALSE, done |-> FALSE, wg |-> 0,
     listener |-> "none", loops |-> 0, stop |-> "none"]

\* The relay subscription: the envelopes put on its channel so far (log), the
\* index of the next one the listener reads, and whether the channel is open.
NoMessages == [log |-> <<>>, next |-> 1, open |-> FALSE]

\* What the listener reads of an envelope.
Envelope(t, c) == [pubsubTopic |-> t, contentTopic |-> c]

Envelopes == {Envelope("X", "c1"), Envelope("X", "c2")}

\* An error is the chain of its messages, outermost first: Unwrap drops the
\* first.  nil is the empty chain.
nil == <<>>

DeadlineExceeded == <<"context deadline exceeded">>

Wrapped(msg, err) == <<msg>> \o err

\* errors.Is(err, target): err, or an error err wraps, equals target.
errorsIs(err, target) ==
    \E k \in 1..Len(err) : SubSeq(err, k, Len(err)) = target

\* A push goroutine: the message (its index in the log), the subscriber,
\* whether Stop was waiting when it was launched (history), whether it is
\* running or has returned, the error NewStream or WriteMsg returned and the
\* label given to metrics.RecordFilterError.
Push(m, p, at) ==
    [msg |-> m, peer |-> p, waited |-> (at = "wait"), st |-> "running",
     err |-> nil, metric |-> ""]

Running(ps) == {i \in DOMAIN ps : ps[i].st \in {"running", "writing"}}

\* Variant: the goroutines share the loop variable and all push to the
\* subscriber the loop ended on.
handle_SharedLoopVar(reg, n, ps, m, e) ==
    LET to == SeqOf(Items(reg, e.pubsubTopic, e.contentTopic))
    IN  [wg     |-> n.wg + Len(to),
         pushes |-> ps \o [i \in 1..Len(to) |-> Push(m, to[Len(to)], n.stop)]]

\* Variant: the goroutines are launched without wg.Add(1).
handle_NoAdd(reg, n, ps, m, e) ==
    LET to == SeqOf(Items(reg, e.pubsubTopic, e.contentTopic))
    IN  [wg     |-> n.wg,
         pushes |-> ps \o [i \in 1..Len(to) |-> Push(m, to[i], n.stop)]]

\* handle: for each subscriber of Items, wg.Add(1) and a goroutine of its own
\* (subscriber := subscriber) that pushes the envelope to it.
handle(reg, n, ps, m, e) ==
    LET to == SeqOf(Items(reg, e.pubsubTopic, e.contentTopic))
    IN  [wg     |-> n.wg + Len(to),
         pushes |-> ps \o [i \in 1..Len(to) |-> Push(m, to[i], n.stop)]]

\* pushMessage, in the two calls it can block in.  What h.NewStream returns
\* under the context with the push timeout: nil with a stream, the deadline's
\* error, an error that wraps it, or another error.  What writer.WriteMsg
\* returns, when it returns: nil or one of these errors; no deadline is set
\* on the stream.
Errors == {DeadlineExceeded, Wrapped("failed", DeadlineExceeded), <<"failed">>}

OpenOutcomes == {nil} \cup Errors

WriteOutcomes == {nil} \cup Errors

Returned(push) == push.st \in {"success", "failure"}

\* Variant: the arguments of errors.Is in the order of its signature.
IsDeadline_ErrFirst(err) == errorsIs(err, DeadlineExceeded)

\* errors.Is(context.DeadlineExceeded, err), as pushMessage calls it.
IsDeadline(err) == errorsIs(DeadlineExceeded, err)

Failed(push, err, other) ==
    [push EXCEPT !.st = "failure", !.err = err,
                 !.metric = IF IsDeadline(err) THEN "push_timeout_failure"
                            ELSE other]

\* Variant: a failed NewStream is flagged and then flagged again by the caller.
pushOpen_FlagTwice(push, log, err) ==
    IF err = nil
    THEN [push |-> [push EXCEPT !.st = "writing"],
          log  |-> Append(log, "NewStream")]
    ELSE [push |-> Failed(push, err, "dial_failure"),
          log  |-> log \o <<"NewStream", "FlagAsFailure", "FlagAsFailure">>]

\* Variant: a failed NewStream is tried once more.
pushOpen_Retry(push, log, err) ==
    IF err = nil
    THEN [push |-> [push EXCEPT !.st = "writing"],
          log  |-> Append(log, "NewStream")]
    ELSE [push |-> Failed(push, err, "dial_failure"),
          log  |-> log \o <<"NewStream", "NewStream", "FlagAsFailure">>]

\* pushMessage up to NewStream's return: on an error the peer is flagged as
\* failure, the error recorded as a timeout or a dial failure and returned;
\* else the stream is written next.
pushOpen(push, log, err) ==
    IF err = nil
    THEN [push |-> [push EXCEPT !.st = "writing"],
          log  |-> Append(log, "NewStream")]
    ELSE [push |-> Failed(push, err, "dial_failure"),
          log  |-> log \o <<"NewStream", "FlagAsFailure">>]

\* pushMessage from WriteMsg's return: on an error it is recorded as a
\* timeout or a write failure and the peer flagged as failure, else the peer
\* is flagged as success; nil is returned either way.
pushWrite(push, log, err) ==
    IF err = nil
    THEN [push |-> [push EXCEPT !.st = "success"],
          log  |-> log \o <<"WriteMsg", "FlagAsSuccess">>]
    ELSE [push |-> Failed(push, err, "response_write_failure"),
          log  |-> log \o <<"WriteMsg", "FlagAsFailure">>]

\* The calls push i has made so far.
LogOf(i) == IF i \in DOMAIN pushLog THEN pushLog[i] ELSE <<>>

Logged(i, log) ==
    [j \in DOMAIN pushLog \cup {i} |-> IF j = i THEN log ELSE pushLog[j]]

\* Start: wg.Wait() returns with the wait group at zero; then the stream
\* handler is set, cancel and msgSub are stored, wg.Add(1) and the listener
\* is launched on the new subscription.  Start and Stop are called by the
\* node's owner, one at a time.
\* Variant: Start makes a new Registry, as the constructor does.
Start_NewRegistry ==
    /\ node.stop \in {"none", "returned"}
    /\ node.wg = 0
    /\ node' = [cancel |-> TRUE, handler |-> TRUE, done |-> FALSE,
                wg |-> node.wg + 1, listener |-> "running",
                loops |-> node.loops + 1, stop |-> "none"]
    /\ bus' = [bus EXCEPT !.open = TRUE]
    /\ subs' = NoSubscribers
    /\ UNCHANGED <<pushLog, gone, streams, before, overlapped, pushes, appVars>>

\* Variant: Start without wg.Wait().
Start_NoWait ==
    /\ node.stop \in {"none", "returned"}
    /\ node' = [cancel |-> TRUE, handler |-> TRUE, done |-> FALSE,
                wg |-> node.wg + 1, listener |-> "running",
                loops |-> node.loops + 1, stop |-> "none"]
    /\ bus' = [bus EXCEPT !.open = TRUE]
    /\ UNCHANGED <<pushLog, gone, subs, streams, before, overlapped, pushes, appVars>>

Start ==
    /\ node.stop \in {"none", "returned"}
    /\ node.wg = 0
    /\ node' = [cancel |-> TRUE, handler |-> TRUE, done |-> FALSE,
                wg |-> node.wg + 1, listener |-> "running",
                loops |-> node.loops + 1, stop |-> "none"]
    /\ bus' = [bus EXCEPT !.open = TRUE]
    /\ UNCHANGED <<pushLog, gone, subs, streams, before, overlapped, pushes, appVars>>

(***************************************************************************)
(* Spec: the node is started (Start sets the stream handler) and requests  *)
(* are served one after the other.  A stream is accepted, its              *)
(* handler runs to the end (the deferred s.Close()), and the closed stream *)
(* is released before the next one is accepted.                            *)
(***************************************************************************)
Streams == {"s1", "s2"}

SerialStream == "s1"

\* The node as NewWakuFilterFullnode makes it.
NewNode ==
    /\ subs = NoSubscribers
    /\ streams = [s \in Streams |-> Idle]
    /\ before = NoSubscribers
    /\ overlapped = FALSE
    /\ node = NotStarted
    /\ bus = NoMessages
    /\ pushes = <<>>
    /\ pushLog = <<>>
    /\ gone = {}

\* No contract deployed, nothing saved, no call made.
NoContract == [maxSupply |-> 0, mintedCount |-> 0]

NothingSaved == [clock |-> <<>>, paired |-> FALSE]

NoCall == [op |-> "none"]

Init ==
    /\ NewNode
    /\ chain = NoContract
    /\ saved = NothingSaved
    /\ out = NoCall

ServeRequest(p, req) ==
    LET r == Run(subs, onRequest(p, req))
    IN  /\ node.handler
        /\ streams[SerialStream].pc = "idle"
        /\ subs' = r.reg
        /\ streams' = [streams EXCEPT ![SerialStream] = r.hs]
        /\ before' = subs
        /\ UNCHANGED <<overlapped, nodeVars>>

ServeUndecodable(p) ==
    /\ node.handler
    /\ streams[SerialStream].pc = "idle"
    /\ streams' = [streams EXCEPT ![SerialStream] = onUndecodable(p)]
    /\ before' = subs
    /\ UNCHANGED <<subs, overlapped, nodeVars>>

\* The closed stream is gone; its slot takes the next inbound stream.
Release(s) ==
    /\ streams[s].pc = "closed"
    /\ streams' = [streams EXCEPT ![s] = Idle]
    /\ before' = NoSubscribers
    /\ UNCHANGED <<subs, overlapped, nodeVars>>

Next ==
    \/ Start
    \/ \E p \in Peers, req \in Requests : ServeRequest(p, req)
    \/ \E p \in Peers : ServeUndecodable(p)
    \/ Release(SerialStream)

Spec == Init /\ [][Next]_vars

(***************************************************************************)
(* SpecConc: one goroutine per inbound stream.  Each Registry call is one  *)
(* atomic step (the Registry locks per call); between two calls of one     *)
(* handler the other handlers may run.                                     *)
(***************************************************************************)
\* The requests of the concurrent runs: one pubsub-topic, lists of one and of
\* two content-topics.
ConcRequests ==
    {Request(ty, "X", cts) : ty \in {SUBSCRIBE, UNSUBSCRIBE},
                             cts \in {<<"c1">>, <<"c2">>, <<"c1", "c2">>}}
    \cup {Request(SUBSCRIBER_PING, "", <<>>), Request(UNSUBSCRIBE_ALL, "", <<>>)}

OthersInFlight(s) == \E o \in Streams \ {s} : InFlight(streams[o])

Accept(s, p, req) ==
    /\ node.handler
    /\ streams[s].pc = "idle"
    /\ streams' = [streams EXCEPT ![s] = onRequest(p, req)]
    /\ overlapped' = (overlapped \/ OthersInFlight(s))
    /\ UNCHANGED <<subs, before, nodeVars>>

AcceptUndecodable(s, p) ==
    /\ node.handler
    /\ streams[s].pc = "idle"
    /\ streams' = [streams EXCEPT ![s] = onUndecodable(p)]
    /\ UNCHANGED <<subs, before, overlapped, nodeVars>>

\* Stream s's handler takes the step it is at.
Take(s) ==
    LET n == Step(subs, streams[s])
    IN  /\ subs' = n.reg
        /\ streams' = [streams EXCEPT ![s] = n.hs]
        /\ UNCHANGED <<before, overlapped, nodeVars>>

SubscribeCount(s) ==
    /\ streams[s].pc = "subscribeCount"
    /\ Take(s)

SubscribeGet(s) ==
    /\ streams[s].pc = "subscribeGet"
    /\ Take(s)

SubscribeSet(s) ==
    /\ streams[s].pc = "subscribeSet"
    /\ Take(s)

UnsubscribeDelete(s) ==
    /\ streams[s].pc = "unsubscribeDelete"
    /\ Take(s)

Ping(s) ==
    /\ streams[s].pc = "ping"
    /\ Take(s)

UnsubscribeAll(s) ==
    /\ streams[s].pc = "unsubscribeAll"
    /\ Take(s)

NextConc ==
    \/ Start
    \/ \E s \in Streams, p \in Peers, req \in ConcRequests : Accept(s, p, req)
    \/ \E s \in Streams, p \in Peers : AcceptUndecodable(s, p)
    \/ \E s \in Streams : SubscribeCount(s)
    \/ \E s \in Streams : SubscribeGet(s)
    \/ \E s \in Streams : SubscribeSet(s)
    \/ \E s \in Streams : UnsubscribeDelete(s)
    \/ \E s \in Streams : Ping(s)
    \/ \E s \in Streams : UnsubscribeAll(s)
    \/ \E s \in Streams : Release(s)

SpecConc == Init /\ [][NextConc]_vars

(***************************************************************************)
(* SpecReply: requests of every kind, well-formed or not, each with either *)
(* request id, served one after the other.                                 *)
(***************************************************************************)
ReplyRequests ==
    ConcRequests
    \cup {Request(ty, "", <<"c1">>) : ty \in {SUBSCRIBE, UNSUBSCRIBE}}
    \cup {Request(ty, "X", <<>>) : ty \in {SUBSCRIBE, UNSUBSCRIBE}}

ServeWithId(p, req, id) ==
    /\ req \in ReplyRequests
    /\ ServeRequest(p, WithRequestId(req, id))

NextReply ==
    \/ Start
    \/ \E p \in Peers, req \in ReplyRequests, id \in RequestIds :
           ServeWithId(p, req, id)
    \/ Release(SerialStream)

SpecReply == Init /\ [][NextReply]_vars

(***************************************************************************)
(* SpecNode: the node from Start to Stop and again.  The relay             *)
(* subscription is given envelopes while it is open; the listener takes    *)
(* them one by one and launches the pushes, which return in any order;     *)
(* two light nodes subscribe and unsubscribe meanwhile (their handlers     *)
(* run to the end, the streams are not kept).                              *)
(***************************************************************************)
NodePeers == {p \in Peers : p <= 2}

NodeRequests ==
    {Request(SUBSCRIBE, "X", <<"c1">>), Request(SUBSCRIBE, "Y", <<"c2">>),
     Request(UNSUBSCRIBE_ALL, "", <<>>)}

\* The positions a push can have in the list of the pushes launched.
PushIds == 1..(MaxMessages * NumPeers)

NodeServe(p, req) ==
    /\ node.handler
    /\ subs' = Run(subs, onRequest(p, req)).reg
    /\ UNCHANGED <<streams, before, overlapped, nodeVars>>

\* The relay puts an envelope on the subscription's channel.
Publish(e) ==
    /\ bus.open
    /\ Len(bus.log) < MaxMessages
    /\ bus' = [bus EXCEPT !.log = Append(@, e)]
    /\ UNCHANGED <<pushLog, gone, subs, streams, before, overlapped, node, pushes, appVars>>

\* Variant: the listener pushes in its own goroutine and takes the next
\* envelope when the pushes have returned.
Handle_WaitsForPushes ==
    /\ node.listener = "running"
    /\ bus.next <= Len(bus.log)
    /\ Running(pushes) = {}
    /\ LET h == handle(subs, node, pushes, bus.next, bus.log[bus.next])
       IN  /\ node' = [node EXCEPT !.wg = h.wg]
           /\ pushes' = h.pushes
    /\ bus' = [bus EXCEPT !.next = @ + 1]
    /\ UNCHANGED <<pushLog, gone, subs, streams, before, overlapped, appVars>>

\* Variant: the listener stops taking envelopes once a push has failed.
Handle_StopsOnFailure ==
    /\ node.listener = "running"
    /\ bus.next <= Len(bus.log)
    /\ \A i \in DOMAIN pushes : pushes[i].st # "failure"
    /\ LET h == handle(subs, node, pushes, bus.next, bus.log[bus.next])
       IN  /\ node' = [node EXCEPT !.wg = h.wg]
           /\ pushes' = h.pushes
    /\ bus' = [bus EXCEPT !.next = @ + 1]
    /\ UNCHANGED <<pushLog, gone, subs, streams, before, overlapped, appVars>>

\* filterListener: the next envelope of msgSub.Ch is handled.
Handle ==
    /\ node.listener = "running"
    /\ bus.next <= Len(bus.log)
    /\ LET h == handle(subs, node, pushes, bus.next, bus.log[bus.next])
       IN  /\ node' = [node EXCEPT !.wg = h.wg]
           /\ pushes' = h.pushes
    /\ bus' = [bus EXCEPT !.next = @ + 1]
    /\ UNCHANGED <<pushLog, gone, subs, streams, before, overlapped, appVars>>

\* filterListener: msgSub.Ch is closed and empty, the range loop ends and the
\* deferred wg.Done() runs.
ListenerExit ==
    /\ node.listener = "running"
    /\ ~bus.open
    /\ bus.next > Len(bus.log)
    /\ node' = [node EXCEPT !.listener = IF node.loops = 1 THEN "exited" ELSE @,
                            !.loops = @ - 1, !.wg = @ - 1]
    /\ UNCHANGED <<pushLog, gone, subs, streams, before, overlapped, bus, pushes, appVars>>

\* A push goroutine returns from pushMessage, the peer flagged as success or
\* as failure, and its deferred wg.Done() runs.
PushReturn(i, ok) ==
    /\ i \in Running(pushes)
    /\ pushes' = [pushes EXCEPT ![i].st = IF ok THEN "success" ELSE "failure"]
    /\ node' = [node EXCEPT !.wg = @ - 1]
    /\ UNCHANGED <<pushLog, gone, subs, streams, before, overlapped, bus, appVars>>

\* Variant: Stop without the check of wf.cancel.
StopEnter_NoNilCheck ==
    /\ node.stop \in {"none", "returned"}
    /\ node' = [node EXCEPT !.handler = FALSE, !.stop = "cancel"]
    /\ UNCHANGED <<pushLog, gone, subs, streams, before, overlapped, bus, pushes, appVars>>

\* Stop: returns at once when cancel is nil, else removes the stream handler.
StopEnter ==
    /\ node.stop \in {"none", "returned"}
    /\ node' = IF node.cancel
               THEN [node EXCEPT !.handler = FALSE, !.stop = "cancel"]
               ELSE [node EXCEPT !.stop = "returned"]
    /\ UNCHANGED <<pushLog, gone, subs, streams, before, overlapped, bus, pushes, appVars>>

\* Variant: Stop waits right after wf.cancel(), the subscription left open.
StopCancel_ThenWait ==
    /\ node.stop = "cancel"
    /\ node' = [node EXCEPT !.done = TRUE, !.stop = "wait"]
    /\ UNCHANGED <<pushLog, gone, subs, streams, before, overlapped, bus, pushes, appVars>>

\* Stop: wf.cancel()
StopCancel ==
    /\ node.stop = "cancel"
    /\ node' = [node EXCEPT !.done = TRUE, !.stop = "unsubscribe"]
    /\ UNCHANGED <<pushLog, gone, subs, streams, before, overlapped, bus, pushes, appVars>>

\* Stop: wf.msgSub.Unsubscribe(), which closes the channel.
StopUnsubscribe ==
    /\ node.stop = "unsubscribe"
    /\ node' = [node EXCEPT !.stop = "wait"]
    /\ bus' = [bus EXCEPT !.open = FALSE]
    /\ UNCHANGED <<pushLog, gone, subs, streams, before, overlapped, pushes, appVars>>

\* Stop: wf.wg.Wait() returns with the wait group at zero, and Stop returns.
StopWait ==
    /\ node.stop = "wait"
    /\ node.wg = 0
    /\ node' = [node EXCEPT !.stop = "returned"]
    /\ UNCHANGED <<pushLog, gone, subs, streams, before, overlapped, bus, pushes, appVars>>

NextNode ==
    \/ Start
    \/ \E p \in NodePeers, req \in NodeRequests : NodeServe(p, req)
    \/ \E e \in Envelopes : Publish(e)
    \/ Handle
    \/ ListenerExit
    \/ \E i \in PushIds, ok \in BOOLEAN : PushReturn(i, ok)
    \/ StopEnter
    \/ StopCancel
    \/ StopUnsubscribe
    \/ StopWait

SpecNode == Init /\ [][NextNode]_vars

(***************************************************************************)
(* SpecPush: the started node with pushMessage step by step.  A push is    *)
(* launched                                                                *)
(* at NewStream; NewStream returns a stream or an error; on a stream,      *)
(* WriteMsg returns when the subscriber takes the payload or the stream    *)
(* fails.  The light nodes subscribe to and unsubscribe from one           *)
(* content-topic.  The errors differ in the label recorded for them and in *)
(* nothing else; one error stands for them here, SpecStop draws them all.  *)
(***************************************************************************)
PushOutcomes == {nil, <<"failed">>}

PushRequests ==
    {Request(SUBSCRIBE, "X", <<"c1">>), Request(UNSUBSCRIBE, "X", <<"c1">>),
     Request(UNSUBSCRIBE_ALL, "", <<>>)}

\* What the request asks to have removed, of what the peer holds.
Removes(reg, p, req) ==
    CASE req.type = UNSUBSCRIBE ->
             {<<p, req.pubsubTopic, c>> : c \in Range(req.contentTopics)}
      [] req.type = UNSUBSCRIBE_ALL ->
             IF p \in DOMAIN reg
             THEN UNION {{<<p, t, c>> : c \in reg[p][t]} : t \in DOMAIN reg[p]}
             ELSE {}
      [] OTHER -> {}

\* What the request asks to have added.
Adds(p, req) ==
    IF req.type = SUBSCRIBE
    THEN {<<p, req.pubsubTopic, c>> : c \in Range(req.contentTopics)}
    ELSE {}

\* A request of a light node is served to its end.  History: what an
\* unsubscription answered 200 names is gone until a subscription answered
\* 200 names it again.
PushServe(p, req) ==
    LET r  == Run(subs, onRequest(p, req))
        ok == /\ Len(r.hs.replies) >= 1
              /\ r.hs.replies[Len(r.hs.replies)].statusCode = StatusOK
    IN  /\ node.handler
        /\ subs' = r.reg
        /\ gone' = IF ok THEN (gone \ Adds(p, req)) \cup Removes(subs, p, req)
                   ELSE gone
        /\ UNCHANGED <<streams, before, overlapped, node, bus, pushes, pushLog, appVars>>

PushOpen(i, outcome) ==
    /\ i \in DOMAIN pushes
    /\ pushes[i].st = "running"
    /\ LET r == pushOpen(pushes[i], LogOf(i), outcome)
       IN  /\ pushes' = [pushes EXCEPT ![i] = r.push]
           /\ pushLog' = Logged(i, r.log)
           /\ node' = IF Returned(r.push) THEN [node EXCEPT !.wg = @ - 1] ELSE node
    /\ UNCHANGED <<gone, subs, streams, before, overlapped, bus, appVars>>

\* Variant: WriteMsg returns only after the pushes launched earlier have.
PushWrite_InOrder(i, outcome) ==
    /\ i \in DOMAIN pushes
    /\ pushes[i].st = "writing"
    /\ \A j \in 1..(i - 1) : Returned(pushes[j])
    /\ LET r == pushWrite(pushes[i], LogOf(i), outcome)
       IN  /\ pushes' = [pushes EXCEPT ![i] = r.push]
           /\ pushLog' = Logged(i, r.log)
    /\ node' = [node EXCEPT !.wg = @ - 1]
    /\ UNCHANGED <<gone, subs, streams, before, overlapped, bus, appVars>>

PushWrite(i, outcome) ==
    /\ i \in DOMAIN pushes
    /\ pushes[i].st = "writing"
    /\ LET r == pushWrite(pushes[i], LogOf(i), outcome)
       IN  /\ pushes' = [pushes EXCEPT ![i] = r.push]
           /\ pushLog' = Logged(i, r.log)
    /\ node' = [node EXCEPT !.wg = @ - 1]
    /\ UNCHANGED <<gone, subs, streams, before, overlapped, bus, appVars>>

NextPush ==
    \/ Start
    \/ \E p \in NodePeers, req \in PushRequests : PushServe(p, req)
    \/ \E e \in Envelopes : Publish(e)
    \/ Handle
    \/ \E i \in PushIds, o \in PushOutcomes : PushOpen(i, o)
    \/ \E i \in PushIds, o \in PushOutcomes : PushWrite(i, o)

SpecPush == Init /\ [][NextPush]_vars

(***************************************************************************)
(* SpecStop: one light node, the pushes step by step, and Stop.  The       *)
(* fairness is the scheduling the code has: the goroutine of Stop and the  *)
(* listener run when they can, and NewStream returns, its context having   *)
(* the push timeout.  Nothing makes WriteMsg return: the subscriber takes  *)
(* the payload or it does not.                                             *)
(***************************************************************************)
StopPeer == CHOOSE p \in NodePeers : \A q \in NodePeers : p <= q

NextStop ==
    \/ Start
    \/ \E req \in PushRequests : PushServe(StopPeer, req)
    \/ \E e \in Envelopes : Publish(e)
    \/ Handle
    \/ ListenerExit
    \/ \E i \in PushIds, o \in OpenOutcomes : PushOpen(i, o)
    \/ \E i \in PushIds, o \in WriteOutcomes : PushWrite(i, o)
    \/ StopEnter
    \/ StopCancel
    \/ StopUnsubscribe
    \/ StopWait

FairStop ==
    /\ WF_vars(Handle)
    /\ WF_vars(ListenerExit)
    /\ WF_vars(\E i \in PushIds, o \in OpenOutcomes : PushOpen(i, o))
    /\ WF_vars(StopCancel)
    /\ WF_vars(StopUnsubscribe)
    /\ WF_vars(StopWait)

SpecStop == Init /\ [][NextStop]_vars /\ FairStop

(***************************************************************************)
(* SpecRace: SpecConc in rounds of two streams, the requests sent by two   *)
(* light nodes.  The streams of a round are accepted once each and may run *)
(* together; when both have ended they are released together.              *)
(* overlapped: the streams of this round have been in flight at the same   *)
(* time.                                                                   *)
(***************************************************************************)
Settle ==
    /\ \A s \in Streams : ~InFlight(streams[s])
    /\ \E s \in Streams : streams[s].pc = "closed"
    /\ streams' = [s \in Streams |-> Idle]
    /\ overlapped' = FALSE
    /\ UNCHANGED <<subs, before, nodeVars>>

NextRace ==
    \/ Start
    \/ \E s \in Streams, p \in NodePeers, req \in ConcRequests : Accept(s, p, req)
    \/ \E s \in Streams : SubscribeCount(s)
    \/ \E s \in Streams : SubscribeGet(s)
    \/ \E s \in Streams : SubscribeSet(s)
    \/ \E s \in Streams : UnsubscribeDelete(s)
    \/ \E s \in Streams : Ping(s)
    \/ \E s \in Streams : UnsubscribeAll(s)
    \/ Settle

SpecRace == Init /\ [][NextRace]_vars

(***************************************************************************)
(* services/collectibles/api.go: minting to wallet addresses and burning   *)
(* (lowering the max supply of) a collectibles contract.  The contract is  *)
(* read through MaxSupply() and MintedCount(); what the API passes to      *)
(* mintTo and setMaxSupply, or to the gas estimate of either, is recorded  *)
(* in out.sent.  An error is its message, "" is nil.                       *)
(***************************************************************************)
\* The largest max supply of the contracts of the model.
MaxTokens == 4

\* The longest list of wallet addresses and the largest amount of a call.
MaxWallets == 2

MaxAmount == 2

Contracts ==
    {[maxSupply |-> m, mintedCount |-> c] : m \in 0..MaxTokens, c \in 0..MaxTokens}
        \cap {c \in [maxSupply : 0..MaxTokens, mintedCount : 0..MaxTokens] :
                  c.mintedCount <= c.maxSupply}

\* Wallet addresses as the caller writes them, and the address each denotes:
\* common.HexToAddress drops a leading 0x and reads hexadecimal digits of
\* either case.
WalletAddresses == {"0xa", "0xB", "b"}

HexToAddress(k) ==
    CASE k = "0xa" -> 10
      [] k = "0xB" -> 11
      [] k = "b"   -> 11

WalletLists == UNION {[1..n -> WalletAddresses] : n \in 0..MaxWallets}

\* Cmp of big.Int: -1, 0 or +1.
Cmp(x, y) == IF x < y THEN 0 - 1 ELSE IF x = y THEN 0 ELSE 1

\* RemainingSupply = MaxSupply - MintedCount
RemainingSupply(c) == c.maxSupply - c.mintedCount

\* Variant: the comparison with the remaining supply tests Cmp(...) > 0.
validateBurnAmount_CmpPositive(c, burnAmount, rpcOk) ==
    IF Cmp(burnAmount, 0) <= 0 THEN "burnAmount is less than 0"
    ELSE IF ~rpcOk THEN "rpc"
    ELSE IF Cmp(burnAmount, RemainingSupply(c)) > 0
    THEN "burnAmount is bigger than remaining amount"
    ELSE ""

\* validateBurnAmount; rpcOk: the calls of the contract succeed.
validateBurnAmount(c, burnAmount, rpcOk) ==
    IF Cmp(burnAmount, 0) <= 0 THEN "burnAmount is less than 0"
    ELSE IF ~rpcOk THEN "rpc"
    ELSE IF Cmp(burnAmount, RemainingSupply(c)) > 1
    THEN "burnAmount is bigger than remaining amount"
    ELSE ""

validateWalletsAndAmounts(walletAddresses, amount) ==
    IF Len(walletAddresses) = 0 THEN "wallet addresses list is empty"
    ELSE IF amount <= 0 THEN "amount is <= 0"
    ELSE ""

\* Variant: every address amount times, one address after the other.
RECURSIVE multiplyWalletAddresses_EachInTurn(_, _)
multiplyWalletAddresses_EachInTurn(amount, contractAddresses) ==
    IF contractAddresses = <<>> THEN <<>>
    ELSE [i \in 1..(IF amount > 0 THEN amount ELSE 0) |-> contractAddresses[1]]
             \o multiplyWalletAddresses_EachInTurn(amount, Tail(contractAddresses))

\* multiplyWalletAddresses: the whole list is appended amount times.
RECURSIVE multiplyWalletAddresses(_, _)
multiplyWalletAddresses(amount, contractAddresses) ==
    IF amount < 1 THEN <<>>
    ELSE multiplyWalletAddresses(amount - 1, contractAddresses)
             \o contractAddresses

\* The usersAddresses of MintTo and EstimateMintTo.
usersAddresses(walletAddresses, amount) ==
    LET totalAddresses == multiplyWalletAddresses(amount, walletAddresses)
    IN  [k \in 1..Len(totalAddresses) |-> HexToAddress(totalAddresses[k])]

\* What a call of the API is recorded as.
Called(op, args, c, err, sent) ==
    [op |-> op, args |-> args, maxSupply |-> c.maxSupply,
     mintedCount |-> c.mintedCount, err |-> err, sent |-> sent]

\* MintTo and EstimateMintTo, up to the call of the contract or of the
\* estimate: the error returned and the addresses passed.
mintTo(op, c, walletAddresses, amount, rpcOk) ==
    LET err  == validateWalletsAndAmounts(walletAddresses, amount)
        args == [walletAddresses |-> walletAddresses, amount |-> amount]
    IN  IF err # "" THEN Called(op, args, c, err, <<>>)
        ELSE IF ~rpcOk THEN Called(op, args, c, "rpc", <<>>)
        ELSE Called(op, args, c, "",
                    <<"mintTo", usersAddresses(walletAddresses, amount)>>)

\* Burn and EstimateBurn, up to the call of the contract or of the estimate:
\* the error returned and the new max supply passed to setMaxSupply.
burn(op, c, burnAmount, rpcOk) ==
    LET err  == validateBurnAmount(c, burnAmount, rpcOk)
        args == [burnAmount |-> burnAmount]
    IN  IF err # "" THEN Called(op, args, c, err, <<>>)
        ELSE Called(op, args, c, "", <<"setMaxSupply", c.maxSupply - burnAmount>>)

\* The call has returned to its caller: its record is dropped, the next call
\* is made.
Forget ==
    /\ out # NoCall
    /\ out' = NoCall
    /\ UNCHANGED <<subs, streams, before, overlapped, node, bus, pushes,
                   pushLog, gone, chain, saved>>

\* MintTo: the transaction, when it is mined and the contract has the supply,
\* mints one token per address passed.
MintTo(walletAddresses, amount, rpcOk, mined) ==
    LET r == mintTo("MintTo", chain, walletAddresses, amount, rpcOk)
        n == IF r.sent = <<>> THEN 0 ELSE Len(r.sent[2])
    IN  /\ out = NoCall
        /\ out' = r
        /\ chain' = IF mined /\ chain.mintedCount + n <= chain.maxSupply
                    THEN [chain EXCEPT !.mintedCount = @ + n]
                    ELSE chain
        /\ UNCHANGED <<subs, streams, before, overlapped, node, bus, pushes,
                       pushLog, gone, saved>>

EstimateMintTo(walletAddresses, amount, rpcOk) ==
    /\ out = NoCall
    /\ out' = mintTo("EstimateMintTo", chain, walletAddresses, amount, rpcOk)
    /\ UNCHANGED <<subs, streams, before, overlapped, node, bus, pushes,
                   pushLog, gone, saved, chain>>

\* Burn: the transaction, when it is mined, sets the contract's max supply; a
\* max supply below zero is no uint256 and is never set.
Burn(burnAmount, rpcOk, mined) ==
    LET r == burn("Burn", chain, burnAmount, rpcOk)
    IN  /\ out = NoCall
        /\ out' = r
        /\ chain' = IF mined /\ r.sent # <<>> /\ r.sent[2] >= 0
                    THEN [chain EXCEPT !.maxSupply = r.sent[2]]
                    ELSE chain
        /\ UNCHANGED <<subs, streams, before, overlapped, node, bus, pushes,
                       pushLog, gone, saved>>

EstimateBurn(burnAmount, rpcOk) ==
    /\ out = NoCall
    /\ out' = burn("EstimateBurn", chain, burnAmount, rpcOk)
    /\ UNCHANGED <<subs, streams, before, overlapped, node, bus, pushes,
                   pushLog, gone, saved, chain>>

(***************************************************************************)
(* SpecTokens: a deployed contract with any max supply and minted count of *)
(* the model, and the calls of the API on it, one at a time, in any order.  *)
(***************************************************************************)
InitTokens ==
    /\ NewNode
    /\ chain \in Contracts
    /\ saved = NothingSaved
    /\ out = NoCall

NextTokens ==
    \/ \E w \in WalletLists, n \in (0 - 1)..MaxAmount, rpcOk, mined \in BOOLEAN :
           MintTo(w, n, rpcOk, mined)
    \/ \E w \in WalletLists, n \in (0 - 1)..MaxAmount, rpcOk \in BOOLEAN :
           EstimateMintTo(w, n, rpcOk)
    \/ \E b \in (0 - 1)..(MaxTokens + 1), rpcOk, mined \in BOOLEAN :
           Burn(b, rpcOk, mined)
    \/ \E b \in (0 - 1)..(MaxTokens + 1), rpcOk \in BOOLEAN :
           EstimateBurn(b, rpcOk)
    \/ Forget

SpecTokens == InitTokens /\ [][NextTokens]_vars

(***************************************************************************)
(* protocol/messenger_saved_address.go: a saved address is written to or   *)
(* deleted from the store of this device and the change is dispatched to   *)
(* the paired devices as a SyncSavedAddress message.  The store is not     *)
(* among the sources: it returns an error or records the change under a    *)
(* clock, which UpdateMetadataAndUpsertSavedAddress chooses and returns.   *)
(***************************************************************************)
\* The largest clock of the model.
MaxClock == 2

Clocks == 0..MaxClock

Addresses == {10, 11}

\* wallet.SavedAddress, by the fields the clock and the removal depend on.
SavedAddresses ==
    [Address : Addresses, UpdateClock : Clocks, Removed : BOOLEAN]

\* protobuf.SyncSavedAddress, by the same fields.
SyncSavedAddress(address, updateClock, removed) ==
    [Address |-> address, UpdateClock |-> updateClock, Removed |-> removed]

\* The store records the change of an address under a clock.
Stored(st, address, clock) ==
    [st EXCEPT !.clock =
         [a \in DOMAIN st.clock \cup {address} |->
              IF a = address THEN clock ELSE st.clock[a]]]

\* dispatchSyncSavedAddress: without paired devices nil is returned and
\* nothing dispatched; else the message goes to rawMessageHandler and the
\* chat is saved, either of which may fail.
dispatchSyncSavedAddress(st, syncMessage, sendOk, saveOk) ==
    IF ~st.paired THEN [err |-> "", sent |-> <<>>]
    ELSE IF ~sendOk THEN [err |-> "send", sent |-> <<>>]
    ELSE IF ~saveOk THEN [err |-> "saveChat", sent |-> <<syncMessage>>]
    ELSE [err |-> "", sent |-> <<syncMessage>>]

\* Variant: the message takes the clock passed as updateClock.
syncNewSavedAddress_ClockPassed(st, savedAddress, updateClock, sendOk, saveOk) ==
    dispatchSyncSavedAddress(st,
        SyncSavedAddress(savedAddress.Address, updateClock, savedAddress.Removed),
        sendOk, saveOk)

\* syncNewSavedAddress: the message is filled from savedAddress, its
\* UpdateClock too; updateClock is not read.
syncNewSavedAddress(st, savedAddress, updateClock, sendOk, saveOk) ==
    dispatchSyncSavedAddress(st,
        SyncSavedAddress(savedAddress.Address, savedAddress.UpdateClock,
                         savedAddress.Removed),
        sendOk, saveOk)

\* Variant: the message of a deletion carries no clock.
syncDeletedSavedAddress_NoClock(st, address, updateClock, sendOk, saveOk) ==
    dispatchSyncSavedAddress(st, SyncSavedAddress(address, 0, TRUE),
                             sendOk, saveOk)

syncDeletedSavedAddress(st, address, updateClock, sendOk, saveOk) ==
    dispatchSyncSavedAddress(st, SyncSavedAddress(address, updateClock, TRUE),
                             sendOk, saveOk)

\* What a call of the messenger is recorded as: its argument, the clock the
\* store recorded, whether there were paired devices, the error returned and
\* the message dispatched.
Synced(op, args, st, clock, r) ==
    [op |-> op, args |-> args, paired |-> st.paired, clock |-> clock,
     err |-> r.err, sent |-> r.sent]

\* UpsertSavedAddress: sa is passed to the store by value; the store returns
\* its error, or the clock it has recorded the address under.
UpsertSavedAddress(sa, updatedClock, storeOk, sendOk, saveOk) ==
    /\ out = NoCall
    /\ saved' = IF storeOk THEN Stored(saved, sa.Address, updatedClock) ELSE saved
    /\ out' = IF storeOk
              THEN Synced("UpsertSavedAddress", sa, saved, updatedClock,
                          syncNewSavedAddress(saved, sa, updatedClock, sendOk, saveOk))
              ELSE Synced("UpsertSavedAddress", sa, saved, 0 - 1,
                          [err |-> "store", sent |-> <<>>])
    /\ UNCHANGED <<subs, streams, before, overlapped, node, bus, pushes,
                   pushLog, gone, chain>>

\* DeleteSavedAddress: updateClock is the time of the call, passed to the
\* store and to the message.
DeleteSavedAddress(address, updateClock, storeOk, sendOk, saveOk) ==
    /\ out = NoCall
    /\ saved' = IF storeOk THEN Stored(saved, address, updateClock) ELSE saved
    /\ out' = IF storeOk
              THEN Synced("DeleteSavedAddress", address, saved, updateClock,
                          syncDeletedSavedAddress(saved, address, updateClock,
                                                  sendOk, saveOk))
              ELSE Synced("DeleteSavedAddress", address, saved, 0 - 1,
                          [err |-> "store", sent |-> <<>>])
    /\ UNCHANGED <<subs, streams, before, overlapped, node, bus, pushes,
                   pushLog, gone, chain>>

\* A device is paired with this one, or the paired devices are gone.
Pair(b) ==
    /\ saved.paired # b
    /\ saved' = [saved EXCEPT !.paired = b]
    /\ UNCHANGED <<subs, streams, before, overlapped, node, bus, pushes,
                   pushLog, gone, chain, out>>

(***************************************************************************)
(* SpecSaved: saved addresses are written and deleted in any order, with   *)
(* and without paired devices.                                             *)
(***************************************************************************)
NextSaved ==
    \/ \E sa \in SavedAddresses, c \in Clocks, storeOk, sendOk, saveOk \in BOOLEAN :
           UpsertSavedAddress(sa, c, storeOk, sendOk, saveOk)
    \/ \E a \in Addresses, c \in Clocks, storeOk, sendOk, saveOk \in BOOLEAN :
           DeleteSavedAddress(a, c, storeOk, sendOk, saveOk)
    \/ \E b \in BOOLEAN : Pair(b)
    \/ Forget

SpecSaved == Init /\ [][NextSaved]_vars

(***************************************************************************)
(* Vocabulary of the properties.                                           *)
(***************************************************************************)
\* The stream Spec serves, and its request.
last == streams[SerialStream]

lastReq == last.request

\* The stream's handler has finished with a request that was decoded.
Answered(hs) == hs.pc = "closed" /\ hs.request # NoRequest

\* The status codes written on the stream, in order.
Codes(hs) == [i \in 1..Len(hs.replies) |-> hs.replies[i].statusCode]

\* The content-topics peer p holds under pubsub-topic t.
Held(reg, p, t) ==
    IF p \in DOMAIN reg /\ t \in DOMAIN reg[p] THEN reg[p][t] ELSE {}

\* The number of content-topics peer p holds over all its pubsub-topics.
TotalHeld(reg, p) ==
    Cardinality({tc \in PubsubTopics \X ContentTopics : tc[2] \in Held(reg, p, tc[1])})

NumSubscribed(reg) == Cardinality(DOMAIN reg)

\* The request passes the checks of its fields.
WellFormed(req) ==
    /\ req.pubsubTopic # ""
    /\ Len(req.contentTopics) >= 1
    /\ Len(req.contentTopics) <= MaxContentTopicsPerRequest

Oversized(req) == Len(req.contentTopics) > MaxContentTopicsPerRequest

(***************************************************************************)
(* C1: every decoded request gets exactly one reply on its stream.         *)
(* Fails: an oversized SUBSCRIBE or UNSUBSCRIBE is answered 400 and then   *)
(* answered again, the oversize branch having no return.                   *)
(***************************************************************************)
C1_ExactlyOneReply ==
    \A s \in Streams : Answered(streams[s]) => Len(streams[s].replies) = 1

(***************************************************************************)
(* C2: a SUBSCRIBE with a non-empty pubsub-topic and more than             *)
(* MaxContentTopicsPerRequest content-topics is answered 400 (the first    *)
(* response on the stream, the one the requester reads); one with exactly  *)
(* MaxContentTopicsPerRequest content-topics, the node having room for a   *)
(* peer and the peer room for the content-topics, is answered 200 and      *)
(* nothing else.                                                           *)
(***************************************************************************)
C2_OversizeIs400AtLimitIs200 ==
    (Answered(last) /\ lastReq.type = SUBSCRIBE /\ lastReq.pubsubTopic # "") =>
        /\ Oversized(lastReq) =>
               /\ Len(last.replies) >= 1
               /\ last.replies[1].statusCode = StatusBadRequest
        /\ ( /\ Len(lastReq.contentTopics) = MaxContentTopicsPerRequest
             /\ NumSubscribed(before) < maxSubscriptions
             /\ TotalHeld(before, last.peer) + Len(lastReq.contentTopics)
                    <= MaxCriteriaPerSubscription )
           => Codes(last) = <<StatusOK>>

C2_Witness ==
    /\ Answered(last) /\ lastReq.type = SUBSCRIBE /\ lastReq.pubsubTopic # ""
    /\ Oversized(lastReq)
    /\ last.replies[1].statusCode = StatusBadRequest

(***************************************************************************)
(* C3: Registry.Set and Registry.Delete are only ever called with at most  *)
(* MaxContentTopicsPerRequest content-topics, and an oversized request     *)
(* leaves the Registry as it was.  Fails: the oversize branch replies 400  *)
(* and falls through to the Registry call.                                 *)
(***************************************************************************)
C3_OversizeNeverReachesRegistry ==
    /\ \A s \in Streams : \A i \in 1..Len(streams[s].calls) :
           streams[s].calls[i].op \in {"Set", "Delete"}
               => streams[s].calls[i].n <= MaxContentTopicsPerRequest
    /\ (Answered(last) /\ lastReq.type \in {SUBSCRIBE, UNSUBSCRIBE}
            /\ Oversized(lastReq)) => subs = before

(***************************************************************************)
(* C4: the number of peers in the Registry is at most maxSubscriptions in  *)
(* every reachable state, under any interleaving of the handlers.          *)
(* Fails under SpecConc: two SUBSCRIBE handlers of new peers both pass     *)
(* the Count() check before either calls Set.                              *)
(***************************************************************************)
C4_CountWithinMax == NumSubscribed(subs) <= maxSubscriptions

\* C4 as amended: as long as no two handlers have been in flight at the same
\* time, the number of peers in the Registry is at most maxSubscriptions.
C4_CountWithinMaxWhenSerial ==
    ~overlapped => NumSubscribed(subs) <= maxSubscriptions

C4_Witness ==
    /\ ~overlapped
    /\ NumSubscribed(subs) = maxSubscriptions
    /\ \E s \in Streams :
           /\ Answered(streams[s])
           /\ streams[s].request.type = SUBSCRIBE
           /\ WellFormed(streams[s].request)
           /\ streams[s].peer \notin DOMAIN subs
           /\ Codes(streams[s]) = <<StatusServiceUnavailable>>

(***************************************************************************)
(* C5: no peer ever holds more than MaxCriteriaPerSubscription             *)
(* content-topics over all its pubsub-topics, the first SUBSCRIBE of a new *)
(* peer included.  Fails already with one request at a time: a new peer's  *)
(* list is not counted at all, and the oversize branch lets a list longer  *)
(* than the cap through.                                                   *)
(***************************************************************************)
C5_CriteriaWithinCap ==
    \A p \in DOMAIN subs : TotalHeld(subs, p) <= MaxCriteriaPerSubscription

(***************************************************************************)
(* C6: with Count() = maxSubscriptions, a well-formed SUBSCRIBE from a     *)
(* peer not in the Registry is answered 503 (once), and the Registry is    *)
(* left as it was: the peer is not added, no other peer changes.           *)
(***************************************************************************)
C6_FullNodeRejectsNewPeer ==
    ( /\ Answered(last) /\ lastReq.type = SUBSCRIBE /\ WellFormed(lastReq)
      /\ NumSubscribed(before) = maxSubscriptions
      /\ last.peer \notin DOMAIN before )
    => /\ Codes(last) = <<StatusServiceUnavailable>>
       /\ last.calls = <<>>
       /\ subs = before

C6_Witness ==
    /\ Answered(last) /\ lastReq.type = SUBSCRIBE /\ WellFormed(lastReq)
    /\ NumSubscribed(before) = maxSubscriptions
    /\ last.peer \notin DOMAIN before
    /\ Codes(last) = <<StatusServiceUnavailable>>
    /\ subs = before

(***************************************************************************)
(* C7: with Count() = maxSubscriptions, a well-formed SUBSCRIBE from a     *)
(* peer already in the Registry that keeps its total within                *)
(* MaxCriteriaPerSubscription is answered 200 and its content-topics are   *)
(* added.  Fails: the capacity check does not look at who is asking.       *)
(***************************************************************************)
C7_FullNodeAdmitsKnownPeer ==
    ( /\ Answered(last) /\ lastReq.type = SUBSCRIBE /\ WellFormed(lastReq)
      /\ NumSubscribed(before) = maxSubscriptions
      /\ last.peer \in DOMAIN before
      /\ TotalHeld(before, last.peer) + Len(lastReq.contentTopics)
             <= MaxCriteriaPerSubscription )
    => /\ Codes(last) = <<StatusOK>>
       /\ Range(lastReq.contentTopics)
              \subseteq Held(subs, last.peer, lastReq.pubsubTopic)

(***************************************************************************)
(* C8: an accepted SUBSCRIBE leaves the peer's set under the pubsub-topic  *)
(* as the union of what it held and what the request names, and nothing    *)
(* else changed; so an accepted SUBSCRIBE that repeats an earlier one      *)
(* leaves the Registry, and Count(), exactly as the first left them.       *)
(***************************************************************************)
AcceptedSubscribe ==
    /\ Answered(last) /\ lastReq.type = SUBSCRIBE
    /\ Len(last.replies) >= 1
    /\ last.replies[Len(last.replies)].statusCode = StatusOK

C8_SubscribeIdempotent ==
    AcceptedSubscribe =>
        /\ DOMAIN subs = DOMAIN before \cup {last.peer}
        /\ \A q \in DOMAIN before \ {last.peer} : subs[q] = before[q]
        /\ \A t \in PubsubTopics :
               Held(subs, last.peer, t) =
                   Held(before, last.peer, t)
                       \cup (IF t = lastReq.pubsubTopic
                             THEN Range(lastReq.contentTopics) ELSE {})
        /\ \A t \in DOMAIN subs[last.peer] : subs[last.peer][t] # {}
        /\ Range(lastReq.contentTopics)
               \subseteq Held(before, last.peer, lastReq.pubsubTopic)
           => /\ subs = before
              /\ NumSubscribed(subs) = NumSubscribed(before)

C8_Witness ==
    /\ AcceptedSubscribe
    /\ last.peer \in DOMAIN before
    /\ Range(lastReq.contentTopics)
           = Held(before, last.peer, lastReq.pubsubTopic)
    /\ subs = before

(***************************************************************************)
(* C9: a well-formed SUBSCRIBE that repeats content-topics the peer holds  *)
(* under that pubsub-topic is answered 200 whenever the peer's resulting   *)
(* number of distinct content-topics is within MaxCriteriaPerSubscription  *)
(* (the node having room).  Fails: the check adds the length of the list   *)
(* to the peer's total, repeats included.                                  *)
(***************************************************************************)
C9_RepeatsNotCountedAgain ==
    ( /\ Answered(last) /\ lastReq.type = SUBSCRIBE /\ WellFormed(lastReq)
      /\ NumSubscribed(before) < maxSubscriptions
      /\ last.peer \in DOMAIN before
      /\ Range(lastReq.contentTopics)
             \cap Held(before, last.peer, lastReq.pubsubTopic) # {}
      /\ TotalHeld(before, last.peer)
             + Cardinality(Range(lastReq.contentTopics)
                           \ Held(before, last.peer, lastReq.pubsubTopic))
             <= MaxCriteriaPerSubscription )
    => Codes(last) = <<StatusOK>>

(***************************************************************************)
(* C10: a SUBSCRIBE or UNSUBSCRIBE with the empty pubsub-topic is answered *)
(* 400 (once), whatever its content-topic list and whatever the Registry   *)
(* holds, and no Registry mutation is called: the Registry is unchanged.   *)
(***************************************************************************)
C10_EmptyPubsubTopicIs400 ==
    ( /\ Answered(last) /\ lastReq.type \in {SUBSCRIBE, UNSUBSCRIBE}
      /\ lastReq.pubsubTopic = "" )
    => /\ Codes(last) = <<StatusBadRequest>>
       /\ last.calls = <<>>
       /\ subs = before

C10_Witness ==
    /\ Answered(last) /\ lastReq.type = SUBSCRIBE
    /\ lastReq.pubsubTopic = ""
    /\ Len(lastReq.contentTopics) >= 1
    /\ before # NoSubscribers
    /\ Codes(last) = <<StatusBadRequest>>
    /\ subs = before

(***************************************************************************)
(* Vocabulary of the claims on PING, UNSUBSCRIBE and UNSUBSCRIBE_ALL.      *)
(***************************************************************************)
\* The stream carries exactly one reply, with this code and description.
OneReply(hs, code, desc) ==
    /\ Len(hs.replies) = 1
    /\ hs.replies[1].statusCode = code
    /\ hs.replies[1].statusDesc = desc

\* The last reply written on the stream has this code.
LastCode(hs, code) ==
    /\ Len(hs.replies) >= 1
    /\ hs.replies[Len(hs.replies)].statusCode = code

\* The handler's stream for a request of peer p served next on Registry reg.
Following(reg, p, req) == Run(reg, onRequest(p, req)).hs

PingRequest == Request(SUBSCRIBER_PING, "", <<>>)

UnsubscribeAllRequest == Request(UNSUBSCRIBE_ALL, "", <<>>)

AnsweredPing == Answered(last) /\ lastReq.type = SUBSCRIBER_PING

AnsweredUnsubscribe == Answered(last) /\ lastReq.type = UNSUBSCRIBE

AnsweredUnsubscribeAll == Answered(last) /\ lastReq.type = UNSUBSCRIBE_ALL

\* The Registry is the same but for what peer p holds under pubsub-topic t.
SameElsewhere(p, t) ==
    /\ DOMAIN subs \ {p} = DOMAIN before \ {p}
    /\ \A q \in DOMAIN before \ {p} : subs[q] = before[q]
    /\ \A u \in PubsubTopics \ {t} : Held(subs, p, u) = Held(before, p, u)

(***************************************************************************)
(* C11: a PING is answered 200 "OK" when the requesting peer is in the     *)
(* Registry at the time of the request and 404 "peer has no subscriptions" *)
(* when it is not, once, the Registry unchanged; and the PING that follows *)
(* an accepted SUBSCRIBE of the peer is answered 200.                      *)
(***************************************************************************)
C11_PingReportsPresence ==
    /\ AnsweredPing =>
           /\ subs = before
           /\ IF last.peer \in DOMAIN before
              THEN OneReply(last, StatusOK, "OK")
              ELSE OneReply(last, StatusNotFound, "peer has no subscriptions")
    /\ AcceptedSubscribe =>
           Codes(Following(subs, last.peer, PingRequest)) = <<StatusOK>>

C11_Witness ==
    /\ AnsweredPing
    /\ last.peer \in DOMAIN before
    /\ before # [q \in {last.peer} |-> before[last.peer]]
    /\ OneReply(last, StatusOK, "OK")

(***************************************************************************)
(* C12: an UNSUBSCRIBE answered 200 removes the content-topics it names    *)
(* from what the peer holds under the pubsub-topic and nothing else; when  *)
(* content-topics remain under that pubsub-topic the peer stays in the     *)
(* Registry with exactly those, and its following PING is answered 200.    *)
(***************************************************************************)
C12_UnsubscribeRemovesOnlyNamed ==
    (AnsweredUnsubscribe /\ LastCode(last, StatusOK)) =>
        LET p    == last.peer
            t    == lastReq.pubsubTopic
            rest == Held(before, p, t) \ Range(lastReq.contentTopics)
        IN  /\ Range(lastReq.contentTopics) \subseteq Held(before, p, t)
            /\ Held(subs, p, t) = rest
            /\ SameElsewhere(p, t)
            /\ rest # {} =>
                   /\ p \in DOMAIN subs
                   /\ subs[p][t] = rest
                   /\ Codes(Following(subs, p, PingRequest)) = <<StatusOK>>

C12_Witness ==
    /\ AnsweredUnsubscribe /\ WellFormed(lastReq)
    /\ Held(before, last.peer, lastReq.pubsubTopic) = {"c1", "c2"}
    /\ lastReq.contentTopics = <<"c1">>
    /\ Codes(last) = <<StatusOK>>
    /\ subs[last.peer][lastReq.pubsubTopic] = {"c2"}

(***************************************************************************)
(* C13: an UNSUBSCRIBE answered 200 that names every content-topic the     *)
(* peer holds, the peer holding one pubsub-topic only, removes the peer:   *)
(* Count() is one less, the other peers are as they were, and the peer's   *)
(* following PING is answered 404.                                         *)
(***************************************************************************)
C13_LastTopicRemovesPeer ==
    ( /\ AnsweredUnsubscribe /\ LastCode(last, StatusOK)
      /\ last.peer \in DOMAIN before
      /\ DOMAIN before[last.peer] = {lastReq.pubsubTopic}
      /\ before[last.peer][lastReq.pubsubTopic]
             \subseteq Range(lastReq.contentTopics) )
    => /\ last.peer \notin DOMAIN subs
       /\ Count(subs) = Count(before) - 1
       /\ \A q \in DOMAIN before \ {last.peer} :
              q \in DOMAIN subs /\ subs[q] = before[q]
       /\ Codes(Following(subs, last.peer, PingRequest)) = <<StatusNotFound>>

C13_Witness ==
    /\ AnsweredUnsubscribe /\ WellFormed(lastReq)
    /\ Codes(last) = <<StatusOK>>
    /\ Count(before) = 2
    /\ last.peer \in DOMAIN before
    /\ DOMAIN before[last.peer] = {lastReq.pubsubTopic}
    /\ before[last.peer][lastReq.pubsubTopic] = Range(lastReq.contentTopics)
    /\ Count(subs) = 1
    /\ last.peer \notin DOMAIN subs

(***************************************************************************)
(* C14: in every state, after any SUBSCRIBE, UNSUBSCRIBE or                *)
(* UNSUBSCRIBE_ALL, a peer of the Registry has at least one pubsub-topic   *)
(* entry and every entry holds a non-empty set of content-topics (a peer   *)
(* with no entry is not in the Registry).                                  *)
(***************************************************************************)
C14_NoEmptyEntries ==
    \A p \in DOMAIN subs :
        /\ DOMAIN subs[p] # {}
        /\ \A t \in DOMAIN subs[p] : subs[p][t] # {}

C14_Witness ==
    /\ AnsweredUnsubscribe /\ LastCode(last, StatusOK)
    /\ lastReq.pubsubTopic \in DOMAIN before[last.peer]
    /\ last.peer \in DOMAIN subs
    /\ lastReq.pubsubTopic \notin DOMAIN subs[last.peer]
    /\ DOMAIN subs[last.peer] # {}

(***************************************************************************)
(* C15: an UNSUBSCRIBE_ALL of a peer of the Registry is answered 200 and   *)
(* removes the peer with every pubsub-topic entry, the other peers as they *)
(* were; the peer's following PING is answered 404 and its following       *)
(* UNSUBSCRIBE_ALL 404.  An UNSUBSCRIBE_ALL of a peer that is not in the   *)
(* Registry is answered 404 "peer has no subscriptions", not 200.          *)
(***************************************************************************)
C15_UnsubscribeAllRemovesPeer ==
    AnsweredUnsubscribeAll =>
        IF last.peer \in DOMAIN before
        THEN /\ OneReply(last, StatusOK, "OK")
             /\ last.peer \notin DOMAIN subs
             /\ \A t \in PubsubTopics : Held(subs, last.peer, t) = {}
             /\ DOMAIN subs = DOMAIN before \ {last.peer}
             /\ \A q \in DOMAIN subs : subs[q] = before[q]
             /\ Codes(Following(subs, last.peer, PingRequest))
                    = <<StatusNotFound>>
             /\ Codes(Following(subs, last.peer, UnsubscribeAllRequest))
                    = <<StatusNotFound>>
        ELSE /\ OneReply(last, StatusNotFound, "peer has no subscriptions")
             /\ subs = before

C15_Witness ==
    /\ AnsweredUnsubscribeAll
    /\ last.peer \in DOMAIN before
    /\ Cardinality(DOMAIN before[last.peer]) = 2
    /\ Count(before) = 2
    /\ OneReply(last, StatusOK, "OK")
    /\ Count(subs) = 1

(***************************************************************************)
(* C16: a well-formed UNSUBSCRIBE for a peer, a pubsub-topic or a          *)
(* content-topic the Registry does not hold for it is answered 404 "peer   *)
(* has no subscriptions", once, and leaves the Registry unchanged; an      *)
(* UNSUBSCRIBE is answered 200 only when the Registry held the peer, the   *)
(* pubsub-topic and the content-topics named (Delete succeeded).           *)
(***************************************************************************)
C16_UnknownUnsubscribeIs404 ==
    /\ ( /\ AnsweredUnsubscribe /\ WellFormed(lastReq)
         /\ ~(Range(lastReq.contentTopics)
                  \subseteq Held(before, last.peer, lastReq.pubsubTopic)) )
       => /\ OneReply(last, StatusNotFound, "peer has no subscriptions")
          /\ subs = before
    /\ (AnsweredUnsubscribe /\ LastCode(last, StatusOK))
       => ~Delete(before, last.peer, lastReq.pubsubTopic,
                  lastReq.contentTopics).err

C16_Witness ==
    /\ AnsweredUnsubscribe /\ WellFormed(lastReq)
    /\ last.peer \in DOMAIN before
    /\ lastReq.pubsubTopic \in DOMAIN before[last.peer]
    /\ Range(lastReq.contentTopics)
           \cap before[last.peer][lastReq.pubsubTopic] = {}
    /\ OneReply(last, StatusNotFound, "peer has no subscriptions")
    /\ subs = before

(***************************************************************************)
(* C18: a stream goes through reading, dispatch, reply and close in that   *)
(* order.  In every step, for every stream: the request read is the only   *)
(* one (it and the peer stay while the handler runs); once a reply is      *)
(* written nothing more is called on the Registry and nothing more is      *)
(* written, the stream is only closed; a closed stream is only released;   *)
(* and a stream whose request cannot be decoded is closed with no reply    *)
(* and no Registry call, the Registry unchanged.  Fails: after the 400 of  *)
(* an oversized SUBSCRIBE or UNSUBSCRIBE the handler goes on to the        *)
(* Registry and replies again.                                             *)
(***************************************************************************)
C18_StreamPhasesInOrder ==
    [][\A s \in Streams :
          LET a == streams[s]
              b == streams'[s]
          IN  /\ InFlight(a) => (b.request = a.request /\ b.peer = a.peer)
              /\ (InFlight(a) /\ a.replies # <<>>) => b \in {a, Closed(a)}
              /\ a.pc = "closed" => b \in {a, Idle}
              /\ (a.pc = "idle" /\ b.pc = "closed" /\ b.request = NoRequest)
                     => (b.replies = <<>> /\ b.calls = <<>> /\ subs' = subs)
      ]_vars

\* The parts of C18 that hold: one request per stream, a closed stream only
\* released, an undecodable request closed unanswered.
C18_OneRequestThenClosed ==
    [][\A s \in Streams :
          LET a == streams[s]
              b == streams'[s]
          IN  /\ InFlight(a) => (b.request = a.request /\ b.peer = a.peer)
              /\ a.pc = "closed" => b \in {a, Idle}
              /\ (a.pc = "idle" /\ b.pc = "closed" /\ b.request = NoRequest)
                     => (b.replies = <<>> /\ b.calls = <<>> /\ subs' = subs)
      ]_vars

(***************************************************************************)
(* C17: for every envelope the listener takes, one push is launched to     *)
(* each peer subscribed to exactly its pubsub-topic and content-topic as   *)
(* the Registry is at that step, none to any other peer, none for another  *)
(* message; and no push is launched in any other step.                     *)
(***************************************************************************)
C17_OnePushPerSubscribedPeer ==
    [][ IF bus'.next = bus.next
        THEN Len(pushes') = Len(pushes)
        ELSE LET m   == bus.next
                 e   == bus.log[m]
                 new == SubSeq(pushes', Len(pushes) + 1, Len(pushes'))
             IN  /\ bus'.next = m + 1
                 /\ SubSeq(pushes', 1, Len(pushes)) = pushes
                 /\ \A i \in DOMAIN new : new[i].msg = m /\ new[i].st = "running"
                 /\ \A p \in Peers :
                        Cardinality({i \in DOMAIN new : new[i].peer = p})
                            = IF e.contentTopic \in Held(subs, p, e.pubsubTopic)
                              THEN 1 ELSE 0
      ]_vars

\* Pushes to peer p for message m, launched so far.
Launched(m, p) ==
    Cardinality({i \in DOMAIN pushes : pushes[i].msg = m /\ pushes[i].peer = p})

C17_Witness ==
    /\ bus.log = <<Envelope("X", "c1"), Envelope("X", "c2")>>
    /\ bus.next = 3
    /\ Held(subs, 1, "X") = {"c1"} /\ Held(subs, 2, "X") = {"c1"}
    /\ Held(subs, 2, "Y") = {"c2"}
    /\ Launched(1, 1) = 1 /\ Launched(1, 2) = 1
    /\ Len(pushes) = 2

(***************************************************************************)
(* C19: every reply carries the request id of the request it answers and   *)
(* one of the handlers' status codes; its description is the text the      *)
(* handler supplies with that code, and the standard text of the code      *)
(* ("OK") where the handler supplies none.                                 *)
(***************************************************************************)
C19_ReplyEchoesRequestId ==
    Answered(last) =>
        \A i \in DOMAIN last.replies :
            LET r == last.replies[i]
            IN  /\ r.requestId = lastReq.requestId
                /\ r.statusCode \in {StatusOK, StatusBadRequest,
                                      StatusNotFound, StatusServiceUnavailable}
                /\ r.statusCode = StatusOK => r.statusDesc = "OK"
                /\ r.statusCode = StatusNotFound
                       => r.statusDesc = "peer has no subscriptions"
                /\ r.statusCode = StatusBadRequest
                       => r.statusDesc \in
                              {"pubsubtopic can't be empty",
                               "at least one contenttopic should be specified",
                               "exceeds maximum content topics: 1"}
                /\ r.statusCode = StatusServiceUnavailable
                       => r.statusDesc \in
                              {"node has reached maximum number of subscriptions",
                               "peer has reached maximum number of filter criteria"}

C19_Witness ==
    /\ Answered(last)
    /\ lastReq.requestId = "r2"
    /\ Len(last.replies) = 2
    /\ last.replies[1] = Response("r2", StatusBadRequest,
                                  "exceeds maximum content topics: 1")
    /\ last.replies[2] = Response("r2", StatusOK, "OK")

(***************************************************************************)
(* C20: when Stop has returned on a started node (and the node has not     *)
(* been started again) the listener has exited and every push launched,    *)
(* those launched while Stop was waiting included, has returned.           *)
(***************************************************************************)
C20_StopLeavesNothingRunning ==
    (node.cancel /\ node.stop = "returned") =>
        /\ node.listener = "exited"
        /\ Running(pushes) = {}
        /\ node.wg = 0

C20_Witness ==
    /\ node.cancel /\ node.stop = "returned"
    /\ \E i \in DOMAIN pushes : pushes[i].waited /\ pushes[i].st = "success"
    /\ \E i \in DOMAIN pushes : ~pushes[i].waited /\ pushes[i].st = "failure"
    /\ node.listener = "exited"

(***************************************************************************)
(* C21: Stop on a node that was never started (cancel is nil) is a no-op:  *)
(* every step taken while the node has never been started, and that does   *)
(* not start it, leaves the stream handler, the context, the subscription, *)
(* the wait group, the listener, the pushes and the Registry as they were; *)
(* Stop has returned and goes to none of its later steps.                  *)
(***************************************************************************)
C21_StopBeforeStartIsNoOp ==
    [][ (~node.cancel /\ ~node'.cancel) =>
            /\ node' = [node EXCEPT !.stop = "returned"]
            /\ UNCHANGED <<subs, streams, bus, pushes>>
      ]_vars

C21_Witness ==
    /\ ~node.cancel
    /\ node.stop = "returned"
    /\ node = [NotStarted EXCEPT !.stop = "returned"]
    /\ bus = NoMessages

(***************************************************************************)
(* C25: Stop on a started node goes through its steps in order: the stream *)
(* handler is removed, then the context is cancelled, then the             *)
(* subscription is unsubscribed, then Stop waits.  While Stop waits, and   *)
(* when it has returned, the handler is removed, the context cancelled and *)
(* the subscription closed.                                                *)
(***************************************************************************)
StopOrder ==
    {<<"none", "cancel">>, <<"returned", "cancel">>, <<"cancel", "unsubscribe">>,
     <<"unsubscribe", "wait">>, <<"wait", "returned">>,
     <<"none", "returned">>, <<"returned", "none">>}

C25_StopStepsInOrder ==
    /\ [][ /\ node'.stop # node.stop => <<node.stop, node'.stop>> \in StopOrder
           /\ (node.stop \in {"none", "returned"} /\ node'.stop = "cancel")
                  => (node.cancel /\ ~node'.handler /\ node'.done = node.done
                      /\ bus' = bus)
           /\ (node.stop = "cancel" /\ node'.stop # node.stop)
                  => (~node.handler /\ node'.done /\ bus' = bus)
           /\ (node.stop = "unsubscribe" /\ node'.stop # node.stop)
                  => (~node.handler /\ node.done /\ ~bus'.open)
         ]_vars
    /\ [](node.stop = "wait" => (~node.handler /\ node.done /\ ~bus.open))
    /\ []((node.cancel /\ node.stop = "returned")
              => (~node.handler /\ node.done /\ ~bus.open))

C25_Witness ==
    /\ node.stop = "wait"
    /\ node.listener = "running"
    /\ Running(pushes) # {}
    /\ node.done /\ ~bus.open /\ ~node.handler

(***************************************************************************)
(* C29: Start sets the stream handler and launches the listener only with  *)
(* no delivery task of an earlier run left: in the step that launches a    *)
(* listener no listener and no push is running and no handler is set; so   *)
(* with Start and Stop called one at a time at most one listener runs.     *)
(***************************************************************************)
C29_OneListenerAtATime ==
    /\ [](node.loops <= 1)
    /\ [][ (node'.loops > node.loops \/ (node'.handler /\ ~node.handler)) =>
               /\ node.loops = 0
               /\ node.wg = 0
               /\ Running(pushes) = {}
               /\ ~node.handler
               /\ node'.loops = 1 /\ node'.handler
         ]_vars

C29_Witness ==
    /\ node.loops = 1
    /\ node.stop = "none"
    /\ node.handler
    /\ \E i \in DOMAIN pushes : pushes[i].waited /\ pushes[i].st # "running"
    /\ \E i \in DOMAIN pushes : ~pushes[i].waited /\ pushes[i].st = "running"

(***************************************************************************)
(* Vocabulary of the claims on the pushes.                                 *)
(***************************************************************************)
\* An envelope is on the channel and the listener is there to take it.
Pending == node.listener = "running" /\ bus.next <= Len(bus.log)

\* How many times push i has made this call.
Times(i, call) == Len(SelectSeq(LogOf(i), LAMBDA c : c = call))

\* The health outcomes push i has recorded, in order.
Flags(i) ==
    SelectSeq(LogOf(i), LAMBDA c : c \in {"FlagAsSuccess", "FlagAsFailure"})

\* In a step that takes an envelope: the pushes it launches.
NewPushes == SubSeq(pushes', Len(pushes) + 1, Len(pushes'))

(***************************************************************************)
(* C22: the listener never waits for a push: whenever an envelope is on    *)
(* the channel the listener can take it and launch its pushes, whatever    *)
(* pushes are blocked in NewStream or in WriteMsg.                         *)
(***************************************************************************)
C22_ListenerNeverWaits ==
    Pending => ENABLED Handle

C22_Witness ==
    /\ bus.next = 3
    /\ \E i \in DOMAIN pushes : pushes[i].msg = 1 /\ pushes[i].st = "running"
    /\ \E i \in DOMAIN pushes : pushes[i].msg = 1 /\ pushes[i].st = "writing"
    /\ \E i \in DOMAIN pushes : pushes[i].msg = 2

(***************************************************************************)
(* C23: a push that has returned has recorded exactly one health outcome:  *)
(* FlagAsFailure after a failed NewStream or a failed WriteMsg,            *)
(* FlagAsSuccess after the payload was written; a push that has not        *)
(* returned has recorded none.                                             *)
(***************************************************************************)
C23_OneHealthOutcomePerPush ==
    \A i \in DOMAIN pushes :
        /\ pushes[i].st = "running" => LogOf(i) = <<>>
        /\ pushes[i].st = "writing" => LogOf(i) = <<"NewStream">>
        /\ pushes[i].st = "success"
               => LogOf(i) = <<"NewStream", "WriteMsg", "FlagAsSuccess">>
        /\ pushes[i].st = "failure"
               => LogOf(i) \in {<<"NewStream", "FlagAsFailure">>,
                                <<"NewStream", "WriteMsg", "FlagAsFailure">>}
        /\ Len(Flags(i)) = IF Returned(pushes[i]) THEN 1 ELSE 0

C23_Witness ==
    /\ \E i \in DOMAIN pushes : LogOf(i) = <<"NewStream", "FlagAsFailure">>
    /\ \E i \in DOMAIN pushes : LogOf(i) = <<"NewStream", "WriteMsg", "FlagAsFailure">>
    /\ \E i \in DOMAIN pushes : LogOf(i) = <<"NewStream", "WriteMsg", "FlagAsSuccess">>

(***************************************************************************)
(* C24: a failed push stops no other delivery.  The step in which a push   *)
(* fails changes nothing of the other pushes, of the channel, of the       *)
(* listener, of the Registry or of any request stream (nothing is sent to  *)
(* a peer); with failed pushes the listener can still take the next        *)
(* envelope, and taking it launches one push per peer subscribed to it.    *)
(***************************************************************************)
SomeFailed == \E i \in DOMAIN pushes : pushes[i].st = "failure"

C24_FailureStopsNoDelivery ==
    /\ []((SomeFailed /\ Pending) => ENABLED Handle)
    /\ [][ /\ \A i \in DOMAIN pushes :
                  (pushes[i].st # "failure" /\ pushes'[i].st = "failure") =>
                      /\ Len(pushes') = Len(pushes)
                      /\ \A j \in DOMAIN pushes \ {i} : pushes'[j] = pushes[j]
                      /\ UNCHANGED <<bus, subs, streams>>
                      /\ node'.listener = node.listener
           /\ (SomeFailed /\ bus'.next # bus.next) =>
                  \A p \in Peers :
                      Cardinality({k \in DOMAIN NewPushes :
                                       /\ NewPushes[k].peer = p
                                       /\ NewPushes[k].msg = bus.next})
                          = IF bus.log[bus.next].contentTopic
                                   \in Held(subs, p, bus.log[bus.next].pubsubTopic)
                            THEN 1 ELSE 0
         ]_vars

C24_Witness ==
    /\ Len(pushes) = 4
    /\ pushes[1].msg = 1 /\ pushes[1].st = "failure"
    /\ pushes[2].msg = 1 /\ pushes[2].st = "success"
    /\ pushes[3].msg = 2 /\ pushes[3].st = "success"
    /\ pushes[4].msg = 2 /\ pushes[4].peer # pushes[3].peer
    /\ LogOf(3) # <<>>

(***************************************************************************)
(* C28: no retry.  For every message and peer at most one push is          *)
(* launched, every push calls NewStream at most once and WriteMsg at most  *)
(* once, and a push that has returned does nothing more.                   *)
(***************************************************************************)
C28_NoRetry ==
    /\ [](\A i \in DOMAIN pushes :
              /\ Times(i, "NewStream") <= 1
              /\ Times(i, "WriteMsg") <= 1
              /\ Returned(pushes[i]) => Times(i, "NewStream") = 1
              /\ \A j \in DOMAIN pushes :
                     (pushes[j].msg = pushes[i].msg /\ pushes[j].peer = pushes[i].peer)
                         => j = i)
    /\ [][\A i \in DOMAIN pushes :
              Returned(pushes[i]) =>
                  (pushes'[i] = pushes[i] /\ pushLog'[i] = pushLog[i])]_vars

C28_Witness ==
    /\ \E i \in DOMAIN pushes :
           pushes[i].msg = 1 /\ LogOf(i) = <<"NewStream", "FlagAsFailure">>
    /\ \E i \in DOMAIN pushes :
           pushes[i].msg = 1 /\ LogOf(i) = <<"NewStream", "WriteMsg", "FlagAsFailure">>
    /\ bus.next = 3
    /\ bus.log[2] = bus.log[1]
    /\ Len(pushes) = 4

(***************************************************************************)
(* C30: what a peer's UNSUBSCRIBE or UNSUBSCRIBE_ALL answered 200 removed, *)
(* and the peer has not had accepted again since, the peer does not hold;  *)
(* the listener, taking an envelope with that pubsub-topic and             *)
(* content-topic, launches no push to that peer.                           *)
(***************************************************************************)
C30_NoPushAfterUnsubscribe ==
    /\ [](\A g \in gone : g[3] \notin Held(subs, g[1], g[2]))
    /\ [][ bus'.next # bus.next =>
               \A k \in DOMAIN NewPushes :
                   <<NewPushes[k].peer, bus.log[bus.next].pubsubTopic,
                     bus.log[bus.next].contentTopic>> \notin gone
         ]_vars

C30_Witness ==
    /\ <<1, "X", "c1">> \in gone
    /\ bus.log = <<Envelope("X", "c1"), Envelope("X", "c1")>>
    /\ bus.next = 3
    /\ Launched(1, 1) = 1 /\ Launched(1, 2) = 1
    /\ Launched(2, 1) = 0 /\ Launched(2, 2) = 1

(***************************************************************************)
(* C26: Stop on a started node returns: from the step that removes the     *)
(* stream handler Stop gets to its return.  Fails: a push in WriteMsg      *)
(* returns when the subscriber takes the payload or the stream fails, no   *)
(* deadline being set on the stream; while it is there the wait group is   *)
(* not at zero and Stop waits.                                             *)
(***************************************************************************)
C26_StopReturns ==
    (node.stop = "cancel") ~> (node.stop = "returned")

\* The part of C26 that holds: the listener exits once Stop has unsubscribed.
C26_ListenerExits ==
    (node.stop = "wait") ~> (node.listener = "exited")

(***************************************************************************)
(* C27: every push returns: NewStream and WriteMsg both return within the  *)
(* push timeout.  Fails: the context with the timeout is given to          *)
(* NewStream alone; WriteMsg is called on the stream with no deadline.     *)
(***************************************************************************)
C27_EveryPushReturns ==
    \A i \in PushIds :
        (i \in DOMAIN pushes) ~> (i \in DOMAIN pushes /\ Returned(pushes[i]))

\* The part of C27 that holds: NewStream returns.
C27_NewStreamReturns ==
    \A i \in PushIds :
        (i \in DOMAIN pushes) ~> (i \in DOMAIN pushes /\ pushes[i].st # "running")

(***************************************************************************)
(* C31: no lost update.  When two SUBSCRIBE requests of one peer under one *)
(* pubsub-topic have run at the same time and both were answered 200, the  *)
(* peer holds the content-topics of both; and every step changes the       *)
(* Registry by one whole Set, Delete or DeleteAll of the peer whose        *)
(* handler takes the step, or not at all.                                  *)
(***************************************************************************)
Accepted200(hs, type) ==
    /\ hs.pc = "closed"
    /\ hs.request.type = type
    /\ hs.replies # <<>>
    /\ hs.replies[Len(hs.replies)].statusCode = StatusOK

RacingSubscribes ==
    /\ overlapped
    /\ \A s \in Streams : Accepted200(streams[s], SUBSCRIBE)
    /\ \A s, o \in Streams :
           /\ streams[s].peer = streams[o].peer
           /\ streams[s].request.pubsubTopic = streams[o].request.pubsubTopic

WholeMutation(s) ==
    LET hs == streams[s]
    IN  \/ subs' = Set(subs, hs.peer, hs.request.pubsubTopic,
                       hs.request.contentTopics)
        \/ subs' = Delete(subs, hs.peer, hs.request.pubsubTopic,
                          hs.request.contentTopics).reg
        \/ subs' = DeleteAll(subs, hs.peer).reg

C32_PushesNotOrdered ==
    \A i \in DOMAIN pushes :
        /\ pushes[i].st = "running" => ENABLED PushOpen(i, nil)
        /\ pushes[i].st = "writing" => ENABLED PushWrite(i, nil)

\* The push of message 2 to peer 1 has completed before that of message 1;
\* of the pushes of message 1 that to peer 2 has completed first, of the
\* pushes of message 2 that to peer 1.
C32_Witness ==
    /\ Len(pushes) = 4
    /\ \A i \in DOMAIN pushes :
           pushes[i].st = IF pushes[i].msg = pushes[i].peer
                          THEN "writing" ELSE "success"
    /\ \A m, q \in {1, 2} : Launched(m, q) = 1

(***************************************************************************)
(* C33: the label recorded for a failed push tells its cause: a timeout    *)
(* failure when the error is, or wraps, the deadline's error; else a dial  *)
(* failure for NewStream's error and a write failure for WriteMsg's.       *)
(* Fails: errors.Is is called with the deadline's error as the error and   *)
(* the error returned as the target, which holds for the deadline's error  *)
(* itself and for no error that wraps it.                                  *)
(***************************************************************************)
Category(i) ==
    IF errorsIs(pushes[i].err, DeadlineExceeded) THEN "push_timeout_failure"
    ELSE IF Times(i, "WriteMsg") = 0 THEN "dial_failure"
    ELSE "response_write_failure"

C33_CategoryTellsCause ==
    \A i \in DOMAIN pushes :
        pushes[i].st = "failure" => pushes[i].metric = Category(i)

\* The part of C33 that holds: the causes other than an error that wraps the
\* deadline's are told apart, and nothing is recorded for a push that has
\* not failed.
C33_CategoryUnlessWrapped ==
    \A i \in DOMAIN pushes :
        /\ (pushes[i].st = "failure" /\ pushes[i].err \notin {Wrapped("failed", DeadlineExceeded)})
               => pushes[i].metric = Category(i)
        /\ pushes[i].st # "failure" => (pushes[i].metric = "" /\ pushes[i].err = nil)

(***************************************************************************)
(* C34: a request changes the subscriptions of the peer at the remote end  *)
(* of its stream and of no other: whenever what the Registry holds for a   *)
(* peer changes, the step is one of a handler serving a request of that    *)
(* peer that is not a SUBSCRIBER_PING; a served SUBSCRIBER_PING leaves the *)
(* Registry as it was.                                                     *)
(***************************************************************************)
C34_OnlyOwnSubscriptions ==
    /\ [][\A q \in Peers :
              Get(subs', q) # Get(subs, q) =>
                  \E s \in Streams :
                      /\ streams'[s] # streams[s]
                      /\ streams'[s].peer = q
                      /\ streams'[s].request.type
                             \in {SUBSCRIBE, UNSUBSCRIBE, UNSUBSCRIBE_ALL}]_vars
    /\ []((last.pc = "closed" /\ lastReq.type = SUBSCRIBER_PING) => subs = before)

C34_Witness ==
    /\ last.pc = "closed"
    /\ lastReq.type = UNSUBSCRIBE_ALL
    /\ LastCode(last, StatusOK)
    /\ Count(before) = 2
    /\ DOMAIN subs = DOMAIN before \ {last.peer}
    /\ \A q \in DOMAIN subs : subs[q] = before[q]

Burns == out.op \in {"Burn", "EstimateBurn"}

Remaining == out.maxSupply - out.mintedCount

C36_BurnWithinRemaining ==
    /\ (Burns /\ out.args.burnAmount > Remaining)
           => (out.err # "" /\ out.sent = <<>>)
    /\ (out.op = "Burn" /\ out.err = "") => out.sent[2] >= out.mintedCount
    /\ chain.maxSupply >= chain.mintedCount

\* The part of C36 that holds: an amount that is not positive is refused, and
\* what is passed is the max supply less the amount.
C36_BurnAmountPositive ==
    Burns =>
        /\ out.args.burnAmount <= 0 => (out.err # "" /\ out.sent = <<>>)
        /\ out.err # "" => out.sent = <<>>
        /\ out.err = "" =>
               out.sent = <<"setMaxSupply", out.maxSupply - out.args.burnAmount>>

(***************************************************************************)
(* C37: for an amount n > 0 and a list of wallet addresses that is not     *)
(* empty, the addresses MintTo and EstimateMintTo pass are each address of *)
(* the list n times in a row, in the order of the list, n times the        *)
(* list's length in all.  Fails: the list as a whole is repeated n times.  *)
(***************************************************************************)
Mints == out.op \in {"MintTo", "EstimateMintTo"}

\* Address k of the list that has each address of w n times in a row.
EachInTurn(w, n, k) == HexToAddress(w[((k - 1) \div n) + 1])

Occurrences(seq, x) == Cardinality({k \in DOMAIN seq : seq[k] = x})

C37_EachAddressInTurn ==
    (Mints /\ out.args.amount > 0 /\ out.args.walletAddresses # <<>>
           /\ out.err # "rpc") =>
        /\ out.err = ""
        /\ Len(out.sent[2]) = out.args.amount * Len(out.args.walletAddresses)
        /\ \A k \in DOMAIN out.sent[2] :
               out.sent[2][k] = EachInTurn(out.args.walletAddresses,
                                           out.args.amount, k)

\* The part of C37 that holds: the length, and how often each address occurs.
C37_EachAddressTimesAmount ==
    /\ (Mints /\ out.args.amount > 0 /\ out.args.walletAddresses # <<>>
              /\ out.err # "rpc") =>
           /\ out.err = ""
           /\ Len(out.sent[2]) = out.args.amount * Len(out.args.walletAddresses)
           /\ \A a \in {HexToAddress(x) : x \in WalletAddresses} :
                  Occurrences(out.sent[2], a)
                      = out.args.amount
                          * Occurrences([k \in DOMAIN out.args.walletAddresses |->
                                            HexToAddress(out.args.walletAddresses[k])], a)
    /\ (Mints /\ (out.args.amount <= 0 \/ out.args.walletAddresses = <<>>)) =>
           (out.err # "" /\ out.sent = <<>>)

(***************************************************************************)
(* C39: the SyncSavedAddress message dispatched carries the clock the      *)
(* store has recorded for the change: the clock                            *)
(* UpdateMetadataAndUpsertSavedAddress returned for UpsertSavedAddress,    *)
(* the clock passed to the store for DeleteSavedAddress; without paired    *)
(* devices nothing is dispatched and no error returned.  Fails for         *)
(* UpsertSavedAddress: the message carries the UpdateClock of the saved    *)
(* address the caller passed.                                              *)
(***************************************************************************)
Syncs == out.op \in {"UpsertSavedAddress", "DeleteSavedAddress"}

Changed == IF out.op = "UpsertSavedAddress" THEN out.args.Address ELSE out.args

C39_MessageCarriesStoredClock ==
    Syncs =>
        /\ out.sent # <<>> =>
               /\ out.sent[1].UpdateClock = out.clock
               /\ out.sent[1].UpdateClock = saved.clock[Changed]
        /\ (~out.paired /\ out.err # "store") => (out.sent = <<>> /\ out.err = "")

\* The part of C39 that holds: the deletion's message, and no paired devices.
C39_DeletionCarriesStoredClock ==
    Syncs =>
        /\ (out.op = "DeleteSavedAddress" /\ out.sent # <<>>) =>
               /\ out.sent[1].UpdateClock = out.clock
               /\ out.sent[1].UpdateClock = saved.clock[Changed]
               /\ out.sent[1].Address = Changed /\ out.sent[1].Removed
        /\ (~out.paired /\ out.err # "store") => (out.sent = <<>> /\ out.err = "")
        /\ out.err = "store" => out.sent = <<>>

====
